---- MODULE Spec2Model ----
(***************************************************************************)
(* A model of the snapflowio/websocket framework: the event-name pattern   *)
(* matcher, the socket close latch, the room registry, the connection      *)
(* lifecycle and the dispatch pipeline driver (Context.Next).              *)
(*                                                                         *)
(* Strings are modelled as sequences of one-character strings, so that the *)
(* parsing and the regular-expression matching are computed as the code    *)
(* computes them.                                                          *)
(***************************************************************************)
EXTENDS Integers, Sequences, FiniteSets, TLC

(***************************************************************************)
(* Bounds of the model.                                                    *)
(***************************************************************************)
\* longest pattern, in dot-separated segments, drawn by SpecPattern
MaxPatSegs == 3
\* longest event, in dot-separated segments, drawn by SpecPattern
MaxEvSegs == 3
\* number of sockets of the room specifications
NumSockets == 2
\* number of Room objects ever allocated by RoomManager.Room (creation stops there)
MaxRoomObjs == 3
\* number of goroutines calling Join / Leave / leaveAllRooms concurrently
NumThreads == 2
\* number of dispatch goroutines followed
MaxTasks == 3
\* number of goroutines calling the operations on rooms whose locking is followed
NumLockThreads == 3
\* number of Room objects whose mutexes are followed
NumLockRooms == 2
MaxTokens == 6
\* number of dispatches whose Context objects are followed
MaxDispatches == 2
\* number of registration calls made on a Server
MaxRegs == 2
\* number of handlers passed to one registration call
MaxRegHandlers == 2
\* number of frames the client sends on a connection whose messages are followed
\* through the message pool
MaxPoolFrames == 3
\* number of frames the client sends on a connection without requests
MaxFrames == 1
\* number of frames the client sends on a connection with requests
MaxReqFrames == 2
\* number of requests the handlers of a connection make
MaxRequests == 1
\* number of times one handler invocation calls ctx.Next()
MaxNextCalls == 2

(***************************************************************************)
(* Section A.  Pattern matcher (src/pattern.go).                           *)
(***************************************************************************)

\* the segments patterns are built from ("" gives leading, trailing and double dots)
PatSegs == {<<"a">>, <<"*">>, <<"*", "*">>, <<>>}
\* the segments events are built from
EvSegs == {<<"a">>, <<"b">>, <<"c">>, <<>>}

RECURSIVE JoinDots(_)
\* strings.Join(segs, "."): the string the caller passes to NewPattern / Match
JoinDots(segs) ==
  IF Len(segs) = 0 THEN <<>>
  ELSE IF Len(segs) = 1 THEN segs[1]
  ELSE segs[1] \o <<".">> \o JoinDots(Tail(segs))

RECURSIVE SplitDots(_, _)
\* strings.Split(str, "."), acc being the part read so far; "" splits to [""]
SplitDots(str, acc) ==
  IF Len(str) = 0 THEN <<acc>>
  ELSE IF Head(str) = "." THEN <<acc>> \o SplitDots(Tail(str), <<>>)
  ELSE SplitDots(Tail(str), Append(acc, Head(str)))

\* the chunk parsePatternChunks builds for one non-empty part
ChunkOf(part) ==
  IF part = <<"*">> THEN [kind |-> "wildcard", modifier |-> "single", pattern |-> "[^.]+", lit |-> <<>>]
  ELSE IF part = <<"*", "*">> THEN [kind |-> "wildcard", modifier |-> "zeroOrMore", pattern |-> ".*", lit |-> <<>>]
  ELSE [kind |-> "static", modifier |-> "single", pattern |-> "quoted", lit |-> part]

RECURSIVE ChunksOfParts(_)
ChunksOfParts(parts) ==
  IF Len(parts) = 0 THEN <<>>
  ELSE IF Head(parts) = <<>> THEN ChunksOfParts(Tail(parts))
  ELSE <<ChunkOf(Head(parts))>> \o ChunksOfParts(Tail(parts))

\* parsePatternChunks: split on ".", drop the empty parts, classify the rest
parsePatternChunks(patternStr) == ChunksOfParts(SplitDots(patternStr, <<>>))

\* TokenOf with "[^.]+" read as ".*"
TokenOfStarCrossesDots(ch) ==
  IF ch.pattern = "[^.]+" \/ ch.pattern = ".*" THEN [t |-> "any", lit |-> <<>>]
  ELSE [t |-> "lit", lit |-> ch.lit]

\* the regular-expression token one chunk contributes
TokenOf(ch) ==
  IF ch.pattern = "[^.]+" THEN [t |-> "seg", lit |-> <<>>]
  ELSE IF ch.pattern = ".*" THEN [t |-> "any", lit |-> <<>>]
  ELSE [t |-> "lit", lit |-> ch.lit]

\* the separator written before chunk i: the code writes "\." before every chunk but the first
SepBefore(chunks, i) == IF i > 1 THEN <<[t |-> "dot", lit |-> <<>>]>> ELSE <<>>

RECURSIVE TokensFrom(_, _)
TokensFrom(chunks, i) ==
  IF i > Len(chunks) THEN <<>>
  ELSE SepBefore(chunks, i) \o <<TokenOf(chunks[i])>> \o TokensFrom(chunks, i + 1)

\* regExpFromChunks: the body of the anchored expression ^...$ as a token list
\* (no chunk: "^$", the empty token list)
regExpFromChunks(chunks) == TokensFrom(chunks, 1)

\* s without its first k characters
Drop(s, k) == SubSeq(s, k + 1, Len(s))

\* the first k characters of s hold no dot
NoDot(s, k) == \A j \in 1..k : s[j] # "."

RECURSIVE RegexMatch(_, _)
\* whether the token list matches the whole of s (the expression is anchored at both ends);
\* "." of ".*" matches any character of the model's alphabet
RegexMatch(toks, s) ==
  IF Len(toks) = 0 THEN Len(s) = 0
  ELSE LET h == Head(toks)
           rest == Tail(toks)
       IN  IF h.t = "lit"
             THEN /\ Len(s) >= Len(h.lit)
                  /\ SubSeq(s, 1, Len(h.lit)) = h.lit
                  /\ RegexMatch(rest, Drop(s, Len(h.lit)))
           ELSE IF h.t = "dot"
             THEN /\ Len(s) >= 1
                  /\ s[1] = "."
                  /\ RegexMatch(rest, Tail(s))
           ELSE IF h.t = "seg"
             THEN \E k \in 1..Len(s) : NoDot(s, k) /\ RegexMatch(rest, Drop(s, k))
           ELSE \E k \in 0..Len(s) : RegexMatch(rest, Drop(s, k))

\* NewPattern(patternStr) followed by Pattern.Match(event)
Match(patternStr, event) == RegexMatch(regExpFromChunks(parsePatternChunks(patternStr)), event)

\* all sequences over S of length at most n
SeqsUpTo(S, n) == UNION {[1..k -> S] : k \in 0..n}

VARIABLES
  patSegs,      \* SpecPattern: the segments of the pattern string under test
  evSegs,       \* SpecPattern: the segments of the event string under test
  matchDone,    \* SpecPattern: whether Match has been called
  matched       \* SpecPattern: the result of Match (FALSE before the call)

patternVars == <<patSegs, evSegs, matchDone, matched>>

VARIABLES
  rmRooms,      \* RoomManager.rooms: room name -> Room object (0: no entry)
  roomObjs,     \* the Room objects allocated so far: [name, sockets]; a handle is an index
  sRooms,       \* Socket.rooms of each socket: room name -> Room object (0: no entry)
  thr,          \* SpecRoomsConc: each goroutine's call in progress
  roomsMx       \* Socket.roomsMx of each socket: the goroutine holding it (0: free)

roomVars == <<rmRooms, roomObjs, sRooms>>
thrVars == <<thr, roomsMx>>


\* the pattern string handed to NewPattern
patternStr == JoinDots(patSegs)
\* the event string handed to Match
eventStr == JoinDots(evSegs)

PatternIdle ==
  /\ patSegs = <<>>
  /\ evSegs = <<>>
  /\ matchDone = FALSE
  /\ matched = FALSE

PatternInit ==
  /\ patSegs \in SeqsUpTo(PatSegs, MaxPatSegs)
  /\ evSegs \in SeqsUpTo(EvSegs, MaxEvSegs)
  /\ matchDone = FALSE
  /\ matched = FALSE

\* p, err := NewPattern(patternStr); p.Match(eventStr)
DoMatch ==
  /\ ~matchDone
  /\ matchDone' = TRUE
  /\ matched' = Match(patternStr, eventStr)
  /\ UNCHANGED <<patSegs, evSegs>>

(***************************************************************************)
(* Section D.  Rooms and RoomManager (src/unnamed/part_001, src/socket.go) *)
(***************************************************************************)

Sockets == 1..NumSockets
RoomNames == {"r1", "r2"}
Threads == 1..NumThreads
Handles == 1..Len(roomObjs)

NoRooms == [n \in RoomNames |-> 0]
IdleThread == [pc |-> "idle", s |-> 0, room |-> 0, pending |-> {}]

\* NewRoomManager, and NewSocket for every socket: no room, no membership
RoomsInit ==
  /\ rmRooms = NoRooms
  /\ roomObjs = <<>>
  /\ sRooms = [s \in Sockets |-> NoRooms]
  /\ thr = [t \in Threads |-> IdleThread]
  /\ roomsMx = [s \in Sockets |-> 0]

\* RoomManager.Room can return: the room exists, or one more object may be allocated
CanRoom(n) == rmRooms[n] # 0 \/ Len(roomObjs) < MaxRoomObjs

\* the handle RoomManager.Room(n) returns: the existing room or a new object
RoomHandle(n) == IF rmRooms[n] # 0 THEN rmRooms[n] ELSE Len(roomObjs) + 1

\* RoomManager.rooms after RoomManager.Room(n)
RoomMapAfterRoom(n) == [rmRooms EXCEPT ![n] = RoomHandle(n)]

\* the Room objects after RoomManager.Room(n)
ObjsAfterRoom(n) ==
  IF rmRooms[n] # 0 THEN roomObjs
  ELSE Append(roomObjs, [name |-> n, sockets |-> {}])

\* Room.addSocket on the objects objs
addSocket(objs, r, s) == [objs EXCEPT ![r].sockets = @ \cup {s}]

\* Room.removeSocket on the objects objs
removeSocket(objs, r, s) == [objs EXCEPT ![r].sockets = @ \ {s}]

\* Room.RemoveAll
RemoveAll(objs, r) == [objs EXCEPT ![r].sockets = {}]

RECURSIVE removeFromAll(_, _, _)
\* the loop of leaveAllRooms: removeSocket on every room of rs
removeFromAll(objs, rs, s) ==
  IF rs = {} THEN objs
  ELSE LET r == CHOOSE x \in rs : TRUE
       IN  removeFromAll(removeSocket(objs, r, s), rs \ {r}, s)

\* the Room objects a socket's rooms map holds
HeldRooms(s) == {sRooms[s][n] : n \in {m \in RoomNames : sRooms[s][m] # 0}}

\* Socket.Rooms(): the names listed in the socket's rooms map
Rooms(s) == {n \in RoomNames : sRooms[s][n] # 0}

\* Room.Has(socket)
Has(r, s) == s \in roomObjs[r].sockets

\* RoomManager.GetRoom(n) exists and has s as a member
ManagerHas(n, s) == rmRooms[n] # 0 /\ Has(rmRooms[n], s)

(* The calls as a whole, one at a time (SpecRoomsSeq). *)

\* RoomManager.Room(n)
RoomManagerRoom(n) ==
  /\ CanRoom(n)
  /\ rmRooms' = RoomMapAfterRoom(n)
  /\ roomObjs' = ObjsAfterRoom(n)
  /\ UNCHANGED sRooms

\* Socket.Join(n) with a room manager attached
SocketJoin(s, n) ==
  /\ CanRoom(n)
  /\ rmRooms' = RoomMapAfterRoom(n)
  /\ sRooms' = [sRooms EXCEPT ![s][n] = RoomHandle(n)]
  /\ roomObjs' = addSocket(ObjsAfterRoom(n), RoomHandle(n), s)

\* Socket.Leave(n)
SocketLeave(s, n) ==
  /\ sRooms' = [sRooms EXCEPT ![s][n] = 0]
  /\ roomObjs' = IF sRooms[s][n] # 0 THEN removeSocket(roomObjs, sRooms[s][n], s) ELSE roomObjs
  /\ UNCHANGED rmRooms

\* Room.Join(socket) on a handle r
RoomJoin(r, s) ==
  /\ sRooms' = [sRooms EXCEPT ![s][roomObjs[r].name] = r]
  /\ roomObjs' = addSocket(roomObjs, r, s)
  /\ UNCHANGED rmRooms

\* Room.Leave(socket) on a handle r
RoomLeave(r, s) ==
  /\ sRooms' = [sRooms EXCEPT ![s][roomObjs[r].name] = 0]
  /\ roomObjs' = removeSocket(roomObjs, r, s)
  /\ UNCHANGED rmRooms

\* RoomManager.DeleteRoom(n)
DeleteRoom(n) ==
  /\ rmRooms' = [rmRooms EXCEPT ![n] = 0]
  /\ roomObjs' = IF rmRooms[n] # 0 THEN RemoveAll(roomObjs, rmRooms[n]) ELSE roomObjs
  /\ UNCHANGED sRooms

\* Socket.leaveAllRooms()
leaveAllRooms(s) ==
  /\ sRooms' = [sRooms EXCEPT ![s] = NoRooms]
  /\ roomObjs' = removeFromAll(roomObjs, HeldRooms(s), s)
  /\ UNCHANGED rmRooms

(* The calls of concurrent goroutines, lock section by lock section        *)
(* (SpecRoomsConc).                                                        *)

\* Socket.Join, lines 234-237: roomsMx taken, the room looked up or created, s.rooms written
JoinStart(t, s, n) ==
  /\ thr[t].pc = "idle"
  /\ roomsMx[s] = 0
  /\ CanRoom(n)
  /\ roomsMx' = [roomsMx EXCEPT ![s] = t]
  /\ rmRooms' = RoomMapAfterRoom(n)
  /\ roomObjs' = ObjsAfterRoom(n)
  /\ sRooms' = [sRooms EXCEPT ![s][n] = RoomHandle(n)]
  /\ thr' = [thr EXCEPT ![t] = [pc |-> "joinAdd", s |-> s, room |-> RoomHandle(n), pending |-> {}]]

\* Socket.Join, line 238 and the deferred unlock: room.addSocket(s), roomsMx released
JoinAdd(t) ==
  /\ thr[t].pc = "joinAdd"
  /\ roomObjs' = addSocket(roomObjs, thr[t].room, thr[t].s)
  /\ roomsMx' = [roomsMx EXCEPT ![thr[t].s] = 0]
  /\ thr' = [thr EXCEPT ![t] = IdleThread]
  /\ UNCHANGED <<rmRooms, sRooms>>

\* Socket.Leave, lines 242-248: under roomsMx the entry is read and deleted
LeaveStart(t, s, n) ==
  /\ thr[t].pc = "idle"
  /\ roomsMx[s] = 0
  /\ sRooms' = [sRooms EXCEPT ![s][n] = 0]
  /\ thr' = [thr EXCEPT ![t] = IF sRooms[s][n] # 0
                                  THEN [pc |-> "leaveRemove", s |-> s, room |-> sRooms[s][n], pending |-> {}]
                                  ELSE IdleThread]
  /\ UNCHANGED <<rmRooms, roomObjs, roomsMx>>

\* Socket.Leave, lines 249-251: room.removeSocket(s), roomsMx no longer held
LeaveRemove(t) ==
  /\ thr[t].pc = "leaveRemove"
  /\ roomObjs' = removeSocket(roomObjs, thr[t].room, thr[t].s)
  /\ thr' = [thr EXCEPT ![t] = IdleThread]
  /\ UNCHANGED <<rmRooms, sRooms, roomsMx>>

\* leaveAllRooms, lines 266-269: under roomsMx the map is taken and replaced by an empty one
LeaveAllStart(t, s) ==
  /\ thr[t].pc = "idle"
  /\ roomsMx[s] = 0
  /\ sRooms' = [sRooms EXCEPT ![s] = NoRooms]
  /\ thr' = [thr EXCEPT ![t] = IF HeldRooms(s) # {}
                                  THEN [pc |-> "leaveAllRemove", s |-> s, room |-> 0, pending |-> HeldRooms(s)]
                                  ELSE IdleThread]
  /\ UNCHANGED <<rmRooms, roomObjs, roomsMx>>

\* leaveAllRooms, lines 270-274: one turn of the loop, in the map's unspecified order
LeaveAllRemove(t) ==
  /\ thr[t].pc = "leaveAllRemove"
  /\ \E r \in thr[t].pending :
       /\ roomObjs' = removeSocket(roomObjs, r, thr[t].s)
       /\ thr' = [thr EXCEPT ![t] = IF thr[t].pending = {r}
                                       THEN IdleThread
                                       ELSE [thr[t] EXCEPT !.pending = @ \ {r}]]
  /\ UNCHANGED <<rmRooms, sRooms, roomsMx>>

\* every call has returned
Quiescent == \A t \in Threads : thr[t].pc = "idle"

(***************************************************************************)
(* Sections C, E, F, G, H.  Socket close latch, handler nodes, dispatch    *)
(* context, pipeline driver and connection lifecycle (src/socket.go,       *)
(* src/context.go, src/context_next.go, src/connection.go,                 *)
(* src/unnamed/part_005).                                                  *)
(*                                                                         *)
(* One connection is followed from NewSocket to the end of                 *)
(* HandleConnection.  Goroutine 0 is the connection goroutine (it runs the *)
(* open and the close chain); goroutine t > 0 is the detached dispatch     *)
(* task of the t-th frame.  A goroutine's call stack is a sequence of      *)
(* frames: activations of Context.Next and of user handlers.  What a user  *)
(* handler does is not in the repository: every handler may, any number of *)
(* times and in any order, call the Context API before it returns or       *)
(* panics.                                                                 *)
(***************************************************************************)

\* the socket of the connection followed
Conn == 1
\* the connection goroutine
ConnTid == 0
\* the dispatch goroutines, in the order of the frames read
MsgTids == 1..MaxTasks
Tids == 0..MaxTasks

StatusNormalClosure == 1000
StatusGoingAway == 1001
StatusPolicyViolation == 1008

\* the arguments handlers close with: Context.Close() and one
\* Context.CloseWithStatus(status, reason)
ServerCloses == { [status |-> StatusNormalClosure, reason |-> ""],
                  [status |-> StatusPolicyViolation, reason |-> "banned"] }
\* the close statuses the transport reports for a client's close frame
ClientStatuses == {StatusGoingAway}
\* the rooms handlers join and leave
LifeRooms == {"r1"}

VARIABLES
  closed,             \* Socket.closed
  closeStatus,        \* Socket.closeStatus
  closeReason,        \* Socket.closeReason
  closeStatusSource,  \* Socket.closeStatusSource
  cancelled,          \* whether Socket.cancelCtx has been called (Socket.ctx is done)
  firstClose,         \* history: the arguments of the first Socket.Close call
  lastClose,          \* history: the arguments of the latest Socket.Close call
  closeFlips,         \* history: how many times Socket.closed went from false to true
  srv,                \* Server: the handler nodes and the first node of each chain
  connPc,             \* where HandleConnection stands
  transport,          \* the SocketConnection: whether Close was called on it, and with what
  tstate,             \* each dispatch goroutine: "none" (not spawned), "run", "done"
  ctx,                \* the Context (and its InboundMessage) of each goroutine
  stack,              \* the call stack of each goroutine
  log,                \* history: the handlers invoked by each goroutine's current Context
  errRecorded,        \* history: whether a handler of the current Context recorded an error
  fatal,              \* history: whether the transport read failed with a fatal error
  toSend,             \* the number of frames the client has still to send
  interceptors,       \* Socket.interceptors: the IDs with a response channel installed
  chans,              \* the response channel made for each request: its buffer, and whether it is closed
  icpt                \* history: what became of a dispatch whose Next found an interceptor,
                      \* whether a message-phase handler of it returned without calling Next,
                      \* and whether a panic was recovered in it

latchVars == <<closed, closeStatus, closeReason, closeStatusSource, cancelled, firstClose,
               lastClose, closeFlips>>
connVars == <<connPc, transport, fatal, toSend>>
reqVars == <<interceptors, chans>>
taskVars == <<tstate, ctx, stack, log, errRecorded, icpt>>

\* the pattern of a node registered by Use(handlers...): WildcardDeep
WildcardDeep == <<"*", "*">>

\* a Server after UseOpen(o1); UseOpen(o2); Use(m1); Use(m2); UseClose(c1, c2); UseClose(c3):
\* node 0 is the nil pointer
LifeServer ==
  [ nodes |-> <<
      [bind |-> "open",   hasPattern |-> FALSE, pattern |-> <<>>,         handlers |-> <<"o1">>,       next |-> 2],
      [bind |-> "open",   hasPattern |-> FALSE, pattern |-> <<>>,         handlers |-> <<"o2">>,       next |-> 0],
      [bind |-> "normal", hasPattern |-> TRUE,  pattern |-> WildcardDeep, handlers |-> <<"m1">>,       next |-> 4],
      [bind |-> "normal", hasPattern |-> TRUE,  pattern |-> WildcardDeep, handlers |-> <<"m2">>,       next |-> 0],
      [bind |-> "close",  hasPattern |-> FALSE, pattern |-> <<>>,         handlers |-> <<"c1", "c2">>, next |-> 6],
      [bind |-> "close",  hasPattern |-> FALSE, pattern |-> <<>>,         handlers |-> <<"c3">>,       next |-> 0] >>,
    firstOpenHandlerNode |-> 1,
    firstHandlerNode |-> 3,
    firstCloseHandlerNode |-> 5 ]

RECURSIVE ChainHandlers(_)
\* the handlers of a chain from node n on, in registration order
ChainHandlers(n) ==
  IF n = 0 THEN <<>> ELSE srv.nodes[n].handlers \o ChainHandlers(srv.nodes[n].next)

OpenHandlers == ChainHandlers(srv.firstOpenHandlerNode)
MessageHandlers == ChainHandlers(srv.firstHandlerNode)
CloseHandlers == ChainHandlers(srv.firstCloseHandlerNode)

\* the elements of a sequence
Range(q) == {q[i] : i \in 1..Len(q)}

\* a Context fresh from the pool, before NewContextWithNodeAndMessageType fills it
NoCtx ==
  [ node |-> 0, matches |-> FALSE, idx |-> 0, cur |-> "none", error |-> FALSE,
    hasSetID |-> FALSE, msgID |-> 0, hasSetEvent |-> FALSE, event |-> <<>> ]

\* NewContextWithNodeAndMessageType over a message fresh from the pool: the message
\* gets a generated ID (a negative number here: no request carries it)
NewContextWithNode(t, firstHandlerNode) ==
  [NoCtx EXCEPT !.node = firstHandlerNode, !.msgID = 0 - (t + 1)]

NextFrame(pc, bind) == [k |-> "next", pc |-> pc, bind |-> bind, h |-> "none", calls |-> 0, id |-> 0]
HandlerFrame(h) == [k |-> "handler", pc |-> "run", bind |-> "none", h |-> h, calls |-> 0, id |-> 0]
\* an activation of Context.RequestWithContext for the request with this ID
RequestFrame(id) == [k |-> "request", pc |-> "wait", bind |-> "none", h |-> "none", calls |-> 0, id |-> id]

\* nothing intercepted in this dispatch, no handler returned yet
NoIcpt ==
  [ found |-> FALSE, pending |-> FALSE, sent |-> 0, invokedAfter |-> FALSE, quiet |-> FALSE,
    panicked |-> FALSE ]

Top(st) == st[Len(st)]
Pop(st) == SubSeq(st, 1, Len(st) - 1)
Push(st, f) == Append(st, f)

LifeInit ==
  /\ closed = FALSE
  /\ closeStatus = 0
  /\ closeReason = ""
  /\ closeStatusSource = "client"
  /\ cancelled = FALSE
  /\ firstClose = [called |-> FALSE, status |-> 0, reason |-> "", source |-> "client"]
  /\ lastClose = [called |-> FALSE, status |-> 0, reason |-> "", source |-> "client"]
  /\ closeFlips = 0
  /\ srv = LifeServer
  /\ connPc = "start"
  /\ transport = [closed |-> FALSE, status |-> 0, reason |-> ""]
  /\ tstate = [t \in MsgTids |-> "none"]
  /\ ctx = [t \in Tids |-> NoCtx]
  /\ stack = [t \in Tids |-> <<>>]
  /\ log = [t \in Tids |-> <<>>]
  /\ errRecorded = [t \in Tids |-> FALSE]
  /\ fatal = FALSE
  /\ toSend = MaxFrames
  /\ interceptors = {}
  /\ chans = <<>>
  /\ icpt = [t \in Tids |-> NoIcpt]

(* Socket.Close and Socket.IsClosed *)

\* the history of Close calls after one more call
NoteClose(status, reason, source) ==
  /\ firstClose' = IF firstClose.called THEN firstClose
                   ELSE [called |-> TRUE, status |-> status, reason |-> reason, source |-> source]
  /\ lastClose' = [called |-> TRUE, status |-> status, reason |-> reason, source |-> source]

\* Socket.Close without its "if s.closed { return }"
CloseUnguarded(status, reason, source) ==
  /\ closed' = TRUE
  /\ closeStatus' = status
  /\ closeReason' = reason
  /\ closeStatusSource' = source
  /\ cancelled' = TRUE
  /\ closeFlips' = closeFlips + 1
  /\ NoteClose(status, reason, source)

\* Socket.Close that flips the latch and forgets s.cancelCtx()
CloseNoCancel(status, reason, source) ==
  /\ NoteClose(status, reason, source)
  /\ IF closed
       THEN UNCHANGED <<closed, closeStatus, closeReason, closeStatusSource, cancelled, closeFlips>>
       ELSE /\ closed' = TRUE
            /\ closeStatus' = status
            /\ closeReason' = reason
            /\ closeStatusSource' = source
            /\ closeFlips' = closeFlips + 1
            /\ UNCHANGED cancelled

\* Socket.Close(status, reason, source), one critical section of closeMu
Close(status, reason, source) ==
  /\ NoteClose(status, reason, source)
  /\ IF closed
       THEN UNCHANGED <<closed, closeStatus, closeReason, closeStatusSource, cancelled, closeFlips>>
       ELSE /\ closed' = TRUE
            /\ closeStatus' = status
            /\ closeReason' = reason
            /\ closeStatusSource' = source
            /\ cancelled' = TRUE
            /\ closeFlips' = closeFlips + 1

\* Socket.IsClosed()
IsClosed == closed

\* Context.CloseStatus()
CloseStatus == <<closeStatus, closeReason, closeStatusSource>>

(* Context.Next *)

\* HandlerNode.tryMatch(ctx)
tryMatch(n, event) ==
  IF ~srv.nodes[n].hasPattern THEN TRUE ELSE Match(srv.nodes[n].pattern, event)

\* line 12
isCloseHandler(c) == c.node # 0 /\ srv.nodes[c.node].bind = "close"

\* line 13 with the close-phase exception dropped
ShortCircuitsAlways(c) == c.error \/ IsClosed

\* line 13 without the test of the socket
ShortCircuitsOnErrorOnly(c) == c.error

\* line 13 with the test of c.Error dropped
ShortCircuitsIgnoresError(c) == ~isCloseHandler(c) /\ IsClosed

\* line 13: the call returns at once
ShortCircuits(c) == c.error \/ (~isCloseHandler(c) /\ IsClosed)

\* lines 24-32 without the test of the node's pattern
AfterEventChangeNoRecheck(c) == [c EXCEPT !.hasSetEvent = FALSE]

\* lines 24-32: the event was changed since the last call
AfterEventChange(c) ==
  IF ~c.hasSetEvent THEN c
  ELSE IF c.matches /\ ~tryMatch(c.node, c.event)
    THEN [c EXCEPT !.node = srv.nodes[c.node].next, !.matches = FALSE, !.idx = 0,
                   !.cur = "none", !.hasSetEvent = FALSE]
    ELSE [c EXCEPT !.hasSetEvent = FALSE]

RECURSIVE FirstMatch(_, _)
\* lines 35-41: the first node from n on that matches (0: none)
FirstMatch(n, event) ==
  IF n = 0 THEN 0
  ELSE IF tryMatch(n, event) THEN n
  ELSE FirstMatch(srv.nodes[n].next, event)

RECURSIVE FindHandlerKeepsIndex(_)
\* lines 33-55 without the increment of currentHandlerIndex at line 48
FindHandlerKeepsIndex(c) ==
  IF c.node = 0 THEN c
  ELSE IF ~c.matches
    THEN LET n == FirstMatch(c.node, c.event)
         IN  IF n = 0 THEN [c EXCEPT !.node = 0]
             ELSE FindHandlerKeepsIndex([c EXCEPT !.node = n, !.matches = TRUE])
  ELSE IF c.idx < Len(srv.nodes[c.node].handlers)
    THEN [c EXCEPT !.cur = srv.nodes[c.node].handlers[c.idx + 1]]
  ELSE FindHandlerKeepsIndex([c EXCEPT !.node = srv.nodes[c.node].next, !.matches = FALSE,
                                       !.idx = 0, !.cur = "none"])

RECURSIVE FindHandler(_)
\* lines 33-55: the cursor moved to the next runnable handler, if any
FindHandler(c) ==
  IF c.node = 0 THEN c
  ELSE IF ~c.matches
    THEN LET n == FirstMatch(c.node, c.event)
         IN  IF n = 0 THEN [c EXCEPT !.node = 0]
             ELSE FindHandler([c EXCEPT !.node = n, !.matches = TRUE])
  ELSE IF c.idx < Len(srv.nodes[c.node].handlers)
    THEN [c EXCEPT !.cur = srv.nodes[c.node].handlers[c.idx + 1], !.idx = c.idx + 1]
  ELSE FindHandler([c EXCEPT !.node = srv.nodes[c.node].next, !.matches = FALSE,
                             !.idx = 0, !.cur = "none"])

\* lines 86-89
Cleanup(c) == [c EXCEPT !.node = 0, !.matches = FALSE, !.idx = 0, !.cur = "none"]

RECURSIVE ReturnFrom(_, _)
\* the Next activation on top of st returns: control goes back to the handler that
\* called it, or to the activation that re-entered it at line 84, which runs lines
\* 86-89 and returns in turn
ReturnFrom(st, c) ==
  LET below == Pop(st)
  IN  IF below # <<>> /\ Top(below).k = "next"
        THEN ReturnFrom(below, Cleanup(c))
        ELSE [stack |-> below, c |-> c]

\* line 83 with the test of the bind type dropped
ReentersAlways(bind) == TRUE

\* line 83: the driver re-enters Next after an open- or close-phase handler
Reenters(bind) == (bind = "open" /\ ~IsClosed) \/ bind = "close"

\* lines 83-89, st being the stack once the handler has returned or panicked
AfterHandler(st, c) ==
  IF Reenters(Top(st).bind)
    THEN [stack |-> Push([st EXCEPT ![Len(st)].pc = "reentered"], NextFrame("enter", "none")), c |-> c]
    ELSE ReturnFrom(st, Cleanup(c))

\* goroutine t is at the start of a Next call
AtNextEnter(t) == stack[t] # <<>> /\ Top(stack[t]).k = "next" /\ Top(stack[t]).pc = "enter"

\* goroutine t is inside a user handler
InHandler(t) == stack[t] # <<>> /\ Top(stack[t]).k = "handler"

\* lines 16-18: the message carries an installed ID with an interceptor outstanding
Intercepts(c) == c.hasSetID /\ c.msgID \in interceptors

\* line 22
AfterIDCheck(c) == [c EXCEPT !.hasSetID = FALSE]

\* lines 22-55: the Context once the ID and the event are dealt with and the cursor moved
Advance(c) == FindHandler(AfterEventChange(AfterIDCheck(c)))

\* lines 10-15 and 56-58: Next returns without invoking a handler
NextReturn(t) ==
  /\ AtNextEnter(t)
  /\ LET c == Advance(ctx[t])
         r == IF ShortCircuits(ctx[t]) THEN ReturnFrom(stack[t], ctx[t]) ELSE ReturnFrom(stack[t], c)
     IN  /\ ShortCircuits(ctx[t]) \/ (~Intercepts(ctx[t]) /\ c.cur = "none")
         /\ stack' = [stack EXCEPT ![t] = r.stack]
         /\ ctx' = [ctx EXCEPT ![t] = r.c]
  /\ UNCHANGED <<tstate, log, errRecorded, icpt>>

\* lines 16-18: GetInterceptor finds the channel of the message's ID
NextIntercept(t) ==
  /\ AtNextEnter(t)
  /\ ~ShortCircuits(ctx[t])
  /\ Intercepts(ctx[t])
  /\ stack' = [stack EXCEPT ![t] = [@ EXCEPT ![Len(@)].pc = "send", ![Len(@)].id = ctx[t].msgID]]
  /\ icpt' = [icpt EXCEPT ![t].found = TRUE, ![t].pending = TRUE]
  /\ UNCHANGED <<tstate, ctx, log, errRecorded>>

\* goroutine t holds a channel from GetInterceptor and is about to send on it
AtSend(t) == stack[t] # <<>> /\ Top(stack[t]).k = "next" /\ Top(stack[t]).pc = "send"

\* lines 19-20: the message is sent on the channel (the send waits while the buffer of
\* capacity 1 is full) and Next returns
NextSend(t) ==
  /\ AtSend(t)
  /\ LET id == Top(stack[t]).id
         r == ReturnFrom(stack[t], ctx[t])
     IN  /\ ~chans[id].closed
         /\ Len(chans[id].buf) < 1
         /\ chans' = [chans EXCEPT ![id].buf = Append(@, t)]
         /\ stack' = [stack EXCEPT ![t] = r.stack]
         /\ ctx' = [ctx EXCEPT ![t] = r.c]
  /\ icpt' = [icpt EXCEPT ![t].pending = FALSE, ![t].sent = @ + 1]
  /\ UNCHANGED <<tstate, log, errRecorded, interceptors>>

RECURSIVE PanicUnwind(_)
\* a panic unwinds the stack down to the innermost user handler, whose
\* execWithCtxRecovery recovers it (the empty stack: nothing recovers it)
PanicUnwind(st) ==
  IF st = <<>> THEN <<>>
  ELSE IF Top(st).k = "handler" THEN st
  ELSE PanicUnwind(Pop(st))

\* line 19: the requester has closed the channel meanwhile; the send panics, and the
\* panic is recovered as the error of the handler that called Next, or by nothing
NextSendPanics(t) ==
  /\ AtSend(t)
  /\ chans[Top(stack[t]).id].closed
  /\ LET st == PanicUnwind(stack[t])
         r == AfterHandler(Pop(st), [ctx[t] EXCEPT !.error = TRUE])
     IN  IF st = <<>>
           THEN /\ stack' = [stack EXCEPT ![t] = <<>>]
                /\ tstate' = [u \in MsgTids |-> IF u = t THEN "crashed" ELSE tstate[u]]
                /\ UNCHANGED <<ctx, errRecorded>>
           ELSE /\ stack' = [stack EXCEPT ![t] = r.stack]
                /\ ctx' = [ctx EXCEPT ![t] = r.c]
                /\ errRecorded' = [errRecorded EXCEPT ![t] = TRUE]
                /\ UNCHANGED tstate
  /\ icpt' = [icpt EXCEPT ![t].pending = FALSE, ![t].panicked = TRUE]
  /\ UNCHANGED <<log, reqVars>>

\* lines 33-82: Next finds the next runnable handler and invokes it
NextInvoke(t) ==
  /\ AtNextEnter(t)
  /\ ~ShortCircuits(ctx[t])
  /\ ~Intercepts(ctx[t])
  /\ LET c == Advance(ctx[t])
     IN  /\ c.cur # "none"
         /\ ctx' = [ctx EXCEPT ![t] = c]
         /\ stack' = [stack EXCEPT ![t] =
              Push([@ EXCEPT ![Len(@)] = NextFrame("handler", srv.nodes[c.node].bind)],
                   HandlerFrame(c.cur))]
         /\ log' = [log EXCEPT ![t] = Append(@, c.cur)]
         /\ icpt' = [icpt EXCEPT ![t].invokedAfter = @ \/ icpt[t].found]
  /\ UNCHANGED <<tstate, errRecorded>>

(* What a user handler does *)

\* the handler calls ctx.Next()
HCallNext(t) ==
  /\ InHandler(t)
  /\ Top(stack[t]).calls < MaxNextCalls
  /\ stack' = [stack EXCEPT ![t] =
       Push([@ EXCEPT ![Len(@)].calls = @ + 1], NextFrame("enter", "none"))]
  /\ UNCHANGED <<tstate, ctx, log, errRecorded, icpt>>

\* the handler returns
HReturn(t) ==
  /\ InHandler(t)
  /\ LET r == AfterHandler(Pop(stack[t]), ctx[t])
     IN  /\ stack' = [stack EXCEPT ![t] = r.stack]
         /\ ctx' = [ctx EXCEPT ![t] = r.c]
  /\ icpt' = [icpt EXCEPT ![t].quiet =
                @ \/ (Top(stack[t]).calls = 0 /\ Top(Pop(stack[t])).bind = "normal")]
  /\ UNCHANGED <<tstate, log, errRecorded>>

\* the handler panics: execWithCtxRecovery records the panic as ctx.Error
HPanic(t) ==
  /\ InHandler(t)
  /\ LET r == AfterHandler(Pop(stack[t]), [ctx[t] EXCEPT !.error = TRUE])
     IN  /\ stack' = [stack EXCEPT ![t] = r.stack]
         /\ ctx' = [ctx EXCEPT ![t] = r.c]
  /\ errRecorded' = [errRecorded EXCEPT ![t] = TRUE]
  /\ icpt' = [icpt EXCEPT ![t].panicked = TRUE]
  /\ UNCHANGED <<tstate, log>>

\* the handler sets ctx.Error (as the JSON and the rate-limit middleware do)
HSetError(t) ==
  /\ InHandler(t)
  /\ ~ctx[t].error
  /\ ctx' = [ctx EXCEPT ![t].error = TRUE]
  /\ errRecorded' = [errRecorded EXCEPT ![t] = TRUE]
  /\ UNCHANGED <<tstate, stack, log, icpt>>

\* the handler calls ctx.Close() or ctx.CloseWithStatus(status, reason)
HClose(t, a) ==
  /\ InHandler(t)
  /\ Close(a.status, a.reason, "server")

\* the handler calls ctx.Join(n)
HJoin(t, n) ==
  /\ InHandler(t)
  /\ SocketJoin(Conn, n)

\* the handler calls ctx.Leave(n)
HLeave(t, n) ==
  /\ InHandler(t)
  /\ SocketLeave(Conn, n)

\* the handler calls ctx.SetMessageID(id) with the ID the client answers a request with
HSetMessageID(t, id) ==
  /\ InHandler(t)
  /\ id \in 1..Len(chans)
  /\ ctx[t].msgID # id
  /\ ctx' = [ctx EXCEPT ![t].msgID = id, ![t].hasSetID = TRUE]
  /\ UNCHANGED <<tstate, stack, log, errRecorded, icpt>>

\* the events handlers rename the message to
Events == {<<"a", ".", "b">>, <<"b">>}

\* the handler calls ctx.SetMessageEvent(event)
HSetMessageEvent(t, event) ==
  /\ InHandler(t)
  /\ ctx' = [ctx EXCEPT ![t].event = event, ![t].hasSetEvent = TRUE]
  /\ UNCHANGED <<tstate, stack, log, errRecorded, icpt>>

(* Context.RequestWithContext *)

\* goroutine t is inside RequestWithContext at this point
AtRequest(t, pc) == stack[t] # <<>> /\ Top(stack[t]).k = "request" /\ Top(stack[t]).pc = pc

\* context.go 381-395: a handler calls ctx.Request(data): a fresh ID, a channel of
\* capacity 1 installed as its interceptor, the request sent
HRequest(t) ==
  /\ InHandler(t)
  /\ Len(chans) < MaxRequests
  /\ chans' = Append(chans, [buf |-> <<>>, closed |-> FALSE])
  /\ interceptors' = interceptors \cup {Len(chans) + 1}
  /\ stack' = [stack EXCEPT ![t] = Push(@, RequestFrame(Len(chans) + 1))]
  /\ UNCHANGED <<tstate, ctx, log, errRecorded, icpt>>

\* context.go 398-401: the select receives the response from the channel
RequestReceive(t) ==
  /\ AtRequest(t, "wait")
  /\ chans[Top(stack[t]).id].buf # <<>>
  /\ chans' = [chans EXCEPT ![Top(stack[t]).id].buf = Tail(@)]
  /\ stack' = [stack EXCEPT ![t] = [@ EXCEPT ![Len(@)].pc = "remove"]]
  /\ UNCHANGED <<tstate, ctx, log, errRecorded, icpt, interceptors>>

\* context.go 402-403: the select sees ctx.Done(): the timeout has expired or the
\* socket's context is cancelled; lines 387-396 (a marshalling or a send error) leave
\* the call the same way, through the two deferred calls
RequestCancelled(t) ==
  /\ AtRequest(t, "wait")
  /\ stack' = [stack EXCEPT ![t] = [@ EXCEPT ![Len(@)].pc = "remove"]]
  /\ UNCHANGED <<tstate, ctx, log, errRecorded, icpt, reqVars>>

\* a deferred call that leaves the entry of the request in the map
RequestRemoveKeepsEntry(t) ==
  /\ AtRequest(t, "remove")
  /\ stack' = [stack EXCEPT ![t] = [@ EXCEPT ![Len(@)].pc = "close"]]
  /\ UNCHANGED <<tstate, ctx, log, errRecorded, icpt, reqVars>>

\* context.go 385: the deferred RemoveInterceptor(id)
RequestRemove(t) ==
  /\ AtRequest(t, "remove")
  /\ interceptors' = interceptors \ {Top(stack[t]).id}
  /\ stack' = [stack EXCEPT ![t] = [@ EXCEPT ![Len(@)].pc = "close"]]
  /\ UNCHANGED <<tstate, ctx, log, errRecorded, icpt, chans>>

\* context.go 383: the deferred close(responseMessageChan); the request returns
RequestCloseChan(t) ==
  /\ AtRequest(t, "close")
  /\ chans' = [chans EXCEPT ![Top(stack[t]).id].closed = TRUE]
  /\ stack' = [stack EXCEPT ![t] = Pop(@)]
  /\ UNCHANGED <<tstate, ctx, log, errRecorded, icpt, interceptors>>

(* Server.HandleConnection *)

\* line 69, socket.go 179-180: the open Context is built and Next is called
HandleOpen ==
  /\ connPc = "start"
  /\ connPc' = "open"
  /\ ctx' = [ctx EXCEPT ![ConnTid] = NewContextWithNode(ConnTid, srv.firstOpenHandlerNode)]
  /\ stack' = [stack EXCEPT ![ConnTid] = <<NextFrame("enter", "none")>>]
  /\ log' = [log EXCEPT ![ConnTid] = <<>>]
  /\ errRecorded' = [errRecorded EXCEPT ![ConnTid] = FALSE]
  /\ icpt' = [icpt EXCEPT ![ConnTid] = NoIcpt]
  /\ UNCHANGED <<tstate, transport, fatal, toSend>>

\* socket.go 180-182: Next has returned, the open Context is freed, HandleOpen returns
HandleOpenReturn ==
  /\ connPc = "open"
  /\ stack[ConnTid] = <<>>
  /\ connPc' = "read"
  /\ ctx' = [ctx EXCEPT ![ConnTid] = NoCtx]
  /\ UNCHANGED <<tstate, stack, log, errRecorded, icpt, transport, fatal, toSend>>

\* HandleNextMessageWithNode reads while HandleOpen is still running
ReadsDuringOpen == connPc \in {"open", "read"}

\* line 70: HandleNextMessageWithNode is called in the read loop, after HandleOpen
Reading == connPc = "read"

\* the number of frames read so far
FramesRead == Cardinality({t \in MsgTids : tstate[t] # "none"})

\* a read loop that reads the next frame only once every dispatch has returned
ReadFrameAfterHandlers ==
  /\ Reading
  /\ \A u \in MsgTids : tstate[u] \in {"none", "done"}
  /\ toSend > 0
  /\ FramesRead < MaxTasks
  /\ toSend' = toSend - 1
  /\ LET t == FramesRead + 1
     IN  /\ tstate' = [tstate EXCEPT ![t] = "run"]
         /\ ctx' = [ctx EXCEPT ![t] = NewContextWithNode(t, srv.firstHandlerNode)]
         /\ stack' = [stack EXCEPT ![t] = <<NextFrame("enter", "none")>>]
  /\ UNCHANGED <<connPc, transport, fatal, log, errRecorded, icpt>>

\* socket.go 152, 165-175: a frame is read and its dispatch goroutine is spawned; the
\* goroutine builds its Context and calls Next
ReadFrame ==
  /\ Reading
  /\ toSend > 0
  /\ FramesRead < MaxTasks
  /\ toSend' = toSend - 1
  /\ LET t == FramesRead + 1
     IN  /\ tstate' = [tstate EXCEPT ![t] = "run"]
         /\ ctx' = [ctx EXCEPT ![t] = NewContextWithNode(t, srv.firstHandlerNode)]
         /\ stack' = [stack EXCEPT ![t] = <<NextFrame("enter", "none")>>]
  /\ UNCHANGED <<connPc, transport, fatal, log, errRecorded, icpt>>

\* socket.go 153-158: the read fails with a close status; the socket is closed with
\* source client and the loop ends
ReadCloseStatus(status) ==
  /\ Reading
  /\ Close(status, "", "client")
  /\ connPc' = "closing"
  /\ UNCHANGED <<transport, fatal, toSend>>

\* socket.go 159-161: the read fails with context.Canceled, which only the socket's
\* own cancelled context produces; the loop ends
ReadCancelled ==
  /\ Reading
  /\ cancelled
  /\ connPc' = "closing"
  /\ UNCHANGED <<transport, fatal, toSend>>

\* socket.go 162: any other read error panics; HandleConnection has no recover
ReadFatal ==
  /\ Reading
  /\ connPc' = "panicked"
  /\ fatal' = TRUE
  /\ UNCHANGED <<transport, toSend>>

\* line 73, socket.go 185-186: the close Context is built and Next is called
HandleClose ==
  /\ connPc = "closing"
  /\ connPc' = "close"
  /\ ctx' = [ctx EXCEPT ![ConnTid] = NewContextWithNode(ConnTid, srv.firstCloseHandlerNode)]
  /\ stack' = [stack EXCEPT ![ConnTid] = <<NextFrame("enter", "none")>>]
  /\ log' = [log EXCEPT ![ConnTid] = <<>>]
  /\ errRecorded' = [errRecorded EXCEPT ![ConnTid] = FALSE]
  /\ icpt' = [icpt EXCEPT ![ConnTid] = NoIcpt]
  /\ UNCHANGED <<tstate, transport, fatal, toSend>>

\* socket.go 186-188: Next has returned, the close Context is freed
HandleCloseReturn ==
  /\ connPc = "close"
  /\ stack[ConnTid] = <<>>
  /\ connPc' = "leave"
  /\ ctx' = [ctx EXCEPT ![ConnTid] = NoCtx]
  /\ UNCHANGED <<tstate, stack, log, errRecorded, icpt, transport, fatal, toSend>>

\* line 74: socket.leaveAllRooms()
ConnLeaveAllRooms ==
  /\ connPc = "leave"
  /\ connPc' = "tclose"
  /\ leaveAllRooms(Conn)
  /\ UNCHANGED <<transport, fatal, toSend>>

\* lines 75-79: connection.Close(socket.closeStatus, socket.closeReason) under closeMu
TransportClose ==
  /\ connPc = "tclose"
  /\ connPc' = "done"
  /\ transport' = [closed |-> TRUE, status |-> closeStatus, reason |-> closeReason]
  /\ UNCHANGED <<fatal, toSend>>

\* socket.go 171-173: Next has returned in the dispatch goroutine, the Context is freed
TaskFinish(t) ==
  /\ tstate[t] = "run"
  /\ stack[t] = <<>>
  /\ tstate' = [tstate EXCEPT ![t] = "done"]
  /\ ctx' = [ctx EXCEPT ![t] = NoCtx]
  /\ UNCHANGED <<stack, log, errRecorded, icpt>>

\* every dispatch goroutine spawned so far has returned
TasksReturned == \A t \in MsgTids : tstate[t] \in {"none", "done"}

(***************************************************************************)
(* Specifications.                                                         *)
(***************************************************************************)

(***************************************************************************)
(* Section B.  InboundMessage objects and inboundMessagePool               *)
(* (src/context_next.go 111-140).  A message is a pointer: the driver      *)
(* sends the pointer to the requester, Context.free puts it back into the  *)
(* pool, and inboundMessageFromPool resets whatever the pool hands out.    *)
(* The pool keeps what is put into it (no garbage collection empties it    *)
(* during the connection).  The payload of the t-th frame is written t,    *)
(* a nil payload 0.                                                        *)
(***************************************************************************)
VARIABLES
  msgOf,      \* Context.message of each goroutine's Context: a message object (0: nil)
  msgData,    \* InboundMessage.Data of each message object allocated so far
  pool,       \* inboundMessagePool: how many times each object is in the pool
  chanMsg,    \* the pointer last sent on each request's channel (0: none)
  reqGot      \* history: what each request returned

msgVars == <<msgOf, msgData, pool, chanMsg, reqGot>>

MsgInit ==
  /\ msgOf = [t \in Tids |-> 0]
  /\ msgData = <<>>
  /\ pool = <<>>
  /\ chanMsg = <<>>
  /\ reqGot = <<>>

\* inboundMessageFromPool() for the Context of goroutine t, the payload then stored
\* into the message: an object of the pool if it holds one, a new object otherwise
MsgGet(t, data) ==
  IF \E h \in 1..Len(pool) : pool[h] > 0
    THEN \E h \in 1..Len(pool) :
           /\ pool[h] > 0
           /\ msgOf' = [msgOf EXCEPT ![t] = h]
           /\ msgData' = [msgData EXCEPT ![h] = data]
           /\ pool' = [pool EXCEPT ![h] = @ - 1]
           /\ UNCHANGED <<chanMsg, reqGot>>
    ELSE /\ msgOf' = [msgOf EXCEPT ![t] = Len(msgData) + 1]
         /\ msgData' = Append(msgData, data)
         /\ pool' = Append(pool, 0)
         /\ UNCHANGED <<chanMsg, reqGot>>

\* Context.free: c.message.free() puts the message of goroutine t's Context into the pool
MsgPut(t) ==
  /\ pool' = [pool EXCEPT ![msgOf[t]] = @ + 1]
  /\ msgOf' = [msgOf EXCEPT ![t] = 0]
  /\ UNCHANGED <<msgData, chanMsg, reqGot>>

\* context_next.go 19: the pointer c.message goes into the channel
MsgSend(t) ==
  /\ chanMsg' = [chanMsg EXCEPT ![Top(stack[t]).id] = msgOf[t]]
  /\ UNCHANGED <<msgOf, msgData, pool, reqGot>>

\* context.go 381-382: a request is made
MsgRequest ==
  /\ chanMsg' = Append(chanMsg, 0)
  /\ reqGot' = Append(reqGot, [done |-> FALSE, err |-> FALSE, data |-> 0, from |-> 0])
  /\ UNCHANGED <<msgOf, msgData, pool>>

\* context.go 398-401: the request reads responseMessage.Data, frees the message and
\* returns the data (from: the frame whose dispatch sent the response)
MsgReceive(t) ==
  LET id == Top(stack[t]).id
      h == chanMsg[id]
  IN  /\ reqGot' = [reqGot EXCEPT ![id] =
                      [done |-> TRUE, err |-> FALSE, data |-> msgData[h],
                       from |-> Head(chans[id].buf)]]
      /\ pool' = [pool EXCEPT ![h] = @ + 1]
      /\ UNCHANGED <<msgOf, msgData, chanMsg>>

\* context.go 402-403: the request returns the cancellation error
MsgCancelled(t) ==
  /\ reqGot' = [reqGot EXCEPT ![Top(stack[t]).id] =
                  [done |-> TRUE, err |-> TRUE, data |-> 0, from |-> 0]]
  /\ UNCHANGED <<msgOf, msgData, pool, chanMsg>>

(***************************************************************************)
(* Section E.  Emitting to rooms and broadcasting (src/unnamed/part_001    *)
(* 476-657).  One call at a time is followed, turn by turn of its loop,    *)
(* while other goroutines join and leave rooms.  Every socket of Sockets   *)
(* is connected: Server.HandleConnection has built it and attached the     *)
(* room manager (part_005 67-68), and it is not closed.                    *)
(***************************************************************************)
VARIABLES
  em,         \* the call followed: its arguments, its snapshot, its loop position, its
              \* counter sent, and what it did so far (tried, ok) and returned (ret); for
              \* ToRooms the room names still to visit and the socketMap built so far;
              \* what the Context's marshaller does, and whether the call panicked
  wire        \* the frames the call has written to each socket

emitVars == <<em, wire>>

\* the sockets connected to the server
Connected == Sockets

NoFrames == [s \in Sockets |-> 0]

IdleEmit ==
  [pc |-> "idle", op |-> "none", caller |-> 0, exclude |-> {}, taken |-> FALSE,
   snap |-> <<>>, i |-> 1, sent |-> 0, tried |-> {}, ok |-> {}, ret |-> 0,
   rooms |-> <<>>, socketMap |-> {}, marshal |-> "ok", panicked |-> FALSE]

EmitInit ==
  /\ em = IdleEmit
  /\ wire = NoFrames

\* the orders in which a range over a map (or over a slice built from one) can
\* visit the sockets of S
Orders(S) == {q \in [1..Cardinality(S) -> S] : \A i, j \in 1..Cardinality(S) : i # j => q[i] # q[j]}

\* Room.Sockets(): the members of the room object r, under its read lock
RoomSockets(r) == roomObjs[r].sockets

\* RoomManager.GetAllSockets(): the members of the rooms listed in the manager
GetAllSockets == UNION {roomObjs[rmRooms[n]].sockets : n \in {m \in RoomNames : rmRooms[m] # 0}}

\* a call returns 0 before it takes any snapshot
ReturnsEarly(op, caller, exclude) ==
  /\ em' = [IdleEmit EXCEPT !.pc = "done", !.op = op, !.caller = caller, !.exclude = exclude]
  /\ wire' = NoFrames

\* a call has its snapshot and enters its loop
EntersLoop(op, caller, exclude, members) ==
  /\ \E order \in Orders(members) :
       em' = [IdleEmit EXCEPT !.pc = "loop", !.op = op, !.caller = caller,
                              !.exclude = exclude, !.taken = TRUE, !.snap = order]
  /\ wire' = NoFrames

\* no call is in progress
CanCall == em.pc \in {"idle", "done"}

\* Room.Emit, lines 485-503, on the room object r (r = 0: no room): no marshaller or a
\* marshalling error returns 0, otherwise the snapshot and the exclude map are built
RoomEmitEnter(op, caller, r, exclude, marshalOK) ==
  IF r = 0 \/ ~marshalOK
    THEN ReturnsEarly(op, caller, exclude)
    ELSE EntersLoop(op, caller, exclude, RoomSockets(r))

\* Context.To(n) then RoomEmitter.Emit(data), called by a handler of socket s
\* (lines 558-571, 585-596): the room is looked up by name, s is excluded
ToEmit(s, n, marshalOK) ==
  /\ CanCall
  /\ RoomEmitEnter("toEmit", s, rmRooms[n], {s}, marshalOK)
  /\ UNCHANGED roomVars

\* Room.Emit(event, data, marshaller, messageType, exclude...) on the room object r
RoomEmit(r, exclude, marshalOK) ==
  /\ CanCall
  /\ RoomEmitEnter("roomEmit", 0, r, exclude, marshalOK)
  /\ UNCHANGED roomVars

\* Room.Broadcast(data, messageType, exclude...) on the room object r, lines 519-524
RoomBroadcast(r, exclude) ==
  /\ CanCall
  /\ EntersLoop("roomBroadcast", 0, exclude, RoomSockets(r))
  /\ UNCHANGED roomVars

\* Context.Broadcast(data) called by a handler of socket s, lines 628-633
ContextBroadcast(s) ==
  /\ CanCall
  /\ EntersLoop("broadcast", s, {}, GetAllSockets)
  /\ UNCHANGED roomVars

\* Context.BroadcastExceptMe(data) called by a handler of socket s, lines 641-648:
\* the loop skips c.socket
ContextBroadcastExceptMe(s) ==
  /\ CanCall
  /\ EntersLoop("broadcastExceptMe", s, {s}, GetAllSockets)
  /\ UNCHANGED roomVars

\* the loop is at a socket of the snapshot
AtSocket == em.pc = "loop" /\ em.i <= Len(em.snap)

\* a loop that skips no socket
SkipsNone(socket) == FALSE

\* lines 505-507 (526-528, 649-651): the socket is in the exclude map
Skips(socket) == socket \in em.exclude

\* one turn of the loop on an excluded socket: continue
LoopSkip ==
  /\ AtSocket
  /\ Skips(em.snap[em.i])
  /\ em' = [em EXCEPT !.i = @ + 1]
  /\ UNCHANGED <<wire, roomVars>>

\* a loop that a failed Send ends
AfterFailedSendStops == [em EXCEPT !.tried = @ \cup {em.snap[em.i]}, !.i = Len(em.snap) + 1]

\* lines 508-513 (529-534): Send has failed, the error is logged: continue
AfterFailedSend == [em EXCEPT !.tried = @ \cup {em.snap[em.i]}, !.i = @ + 1]

\* one turn of the loop on a socket not excluded: socket.Send writes the frame to the
\* socket or fails; sent++ after a Send that succeeded
LoopSend(sendOK) ==
  /\ AtSocket
  /\ ~Skips(em.snap[em.i])
  /\ em.marshal # "nil"
  /\ IF sendOK
       THEN /\ wire' = [wire EXCEPT ![em.snap[em.i]] = @ + 1]
            /\ em' = [em EXCEPT !.tried = @ \cup {em.snap[em.i]}, !.ok = @ \cup {em.snap[em.i]},
                                !.sent = @ + 1, !.i = @ + 1]
       ELSE /\ wire' = wire
            /\ em' = AfterFailedSend
  /\ UNCHANGED roomVars

\* the loop is over: return sent
EmitReturn ==
  /\ em.pc = "loop"
  /\ em.i > Len(em.snap)
  /\ em' = [em EXCEPT !.pc = "done", !.ret = em.sent]
  /\ UNCHANGED <<wire, roomVars>>

\* what the messageMarshaller of the Context does: it returns the bytes, it returns an
\* error, or the field is nil
MarshalOutcomes == {"ok", "error", "nil"}

\* the sequences of room names ToRooms can be called with
RoomNameLists == UNION {Orders(S) : S \in SUBSET RoomNames}

\* a ToRooms whose emitter excludes nobody
ToRoomsEmitExcludingNobody(s, o, marshal) ==
  /\ CanCall
  /\ wire' = NoFrames
  /\ em' = IF o = <<>>
             THEN [IdleEmit EXCEPT !.pc = "done", !.op = "toRooms", !.caller = s, !.exclude = {},
                                   !.marshal = marshal]
             ELSE [IdleEmit EXCEPT !.pc = "collect", !.op = "toRooms", !.caller = s, !.exclude = {},
                                   !.rooms = o, !.marshal = marshal]
  /\ UNCHANGED roomVars

\* Context.ToRooms(o...) then RoomEmitter.Emit(data), called by a handler of socket s
\* (part_001 669-681, 590-596): the emitter excludes s; with no room name Emit returns 0,
\* otherwise emitToMultipleRooms starts
ToRoomsEmit(s, o, marshal) ==
  /\ CanCall
  /\ wire' = NoFrames
  /\ em' = IF o = <<>>
             THEN [IdleEmit EXCEPT !.pc = "done", !.op = "toRooms", !.caller = s, !.exclude = {s},
                                   !.marshal = marshal]
             ELSE [IdleEmit EXCEPT !.pc = "collect", !.op = "toRooms", !.caller = s, !.exclude = {s},
                                   !.rooms = o, !.marshal = marshal]
  /\ UNCHANGED roomVars

\* emitToMultipleRooms, lines 602-611: GetRoom(roomName) and, when the room exists, its
\* members put into socketMap under the room's read lock
CollectRoom ==
  /\ em.pc = "collect"
  /\ em.rooms # <<>>
  /\ LET r == rmRooms[Head(em.rooms)]
     IN  em' = [em EXCEPT !.rooms = Tail(@),
                          !.socketMap = @ \cup (IF r # 0 THEN RoomSockets(r) ELSE {})]
  /\ UNCHANGED <<wire, roomVars>>

\* Context.mustMarshal (lines 682-689) before a loop over the sockets of members: a nil
\* marshaller panics in the call of the nil func; after a marshalling error the loop
\* runs with the empty payload
AfterMustMarshal(members) ==
  IF em.marshal = "nil"
    THEN em' = [em EXCEPT !.pc = "done", !.taken = TRUE, !.panicked = TRUE]
    ELSE \E order \in Orders(members) :
           em' = [em EXCEPT !.pc = "loop", !.taken = TRUE, !.snap = order]

\* emitToMultipleRooms, lines 612-617: the rooms are visited; the exclude map, then
\* mustMarshal, then the loop over socketMap
CollectDone ==
  /\ em.pc = "collect"
  /\ em.rooms = <<>>
  /\ AfterMustMarshal(em.socketMap)
  /\ UNCHANGED <<wire, roomVars>>

\* Context.Broadcast(data), lines 628-640, with a marshaller that does as told:
\* mustMarshal is called in the loop, once per socket
ContextBroadcastWith(s, marshal) ==
  /\ CanCall
  /\ wire' = NoFrames
  /\ \E order \in Orders(GetAllSockets) :
       em' = [IdleEmit EXCEPT !.pc = "loop", !.op = "broadcast", !.caller = s, !.taken = TRUE,
                              !.snap = order, !.marshal = marshal]
  /\ UNCHANGED roomVars

\* line 634: c.mustMarshal(data) in the argument list of Send panics on a nil marshaller
LoopPanic ==
  /\ AtSocket
  /\ ~Skips(em.snap[em.i])
  /\ em.marshal = "nil"
  /\ em' = [em EXCEPT !.pc = "done", !.panicked = TRUE]
  /\ UNCHANGED <<wire, roomVars>>

\* Context.BroadcastExceptMe(data), lines 641-657: mustMarshal before the loop
ContextBroadcastExceptMeWith(s, marshal) ==
  /\ CanCall
  /\ wire' = NoFrames
  /\ LET call == [IdleEmit EXCEPT !.op = "broadcastExceptMe", !.caller = s, !.exclude = {s},
                                  !.marshal = marshal]
     IN  IF marshal = "nil"
           THEN em' = [call EXCEPT !.pc = "done", !.taken = TRUE, !.panicked = TRUE]
           ELSE \E order \in Orders(GetAllSockets) :
                  em' = [call EXCEPT !.pc = "loop", !.taken = TRUE, !.snap = order]
  /\ UNCHANGED roomVars

\* Context.EmitTo(socketID, data), lines 658-668, for the ID of socket target:
\* GetSocketByID finds it in a room of the manager or EmitTo returns nil; mustMarshal,
\* then one Send
ContextEmitTo(s, target, marshal) ==
  /\ CanCall
  /\ wire' = NoFrames
  /\ LET call == [IdleEmit EXCEPT !.op = "emitTo", !.caller = s, !.marshal = marshal]
     IN  em' = IF target \notin GetAllSockets THEN [call EXCEPT !.pc = "done"]
               ELSE IF marshal = "nil" THEN [call EXCEPT !.pc = "done", !.taken = TRUE, !.panicked = TRUE]
               ELSE [call EXCEPT !.pc = "loop", !.taken = TRUE, !.snap = <<target>>]
  /\ UNCHANGED roomVars

(***************************************************************************)
(* Section R.  Registration of handlers (src/handler_validation.go,        *)
(* src/unnamed/part_005 109-210) and the method Context.Next invokes a     *)
(* handler through (src/context_next.go 59-82).  A handler value is named  *)
(* by the capabilities of its dynamic type: "hMO" has Handle and           *)
(* HandleOpen, "hf" is a HandlerFunc, "fn" a func, "x" a value   *)
(* of a type with none of them, "nil" the nil interface value, "a" the     *)
(* string "a".                                                             *)
(***************************************************************************)
VARIABLES
  reg,        \* history: the last registration call, its result and the Server before it
  methods     \* history: per goroutine, how Next invoked each handler of the dispatch

regVars == <<reg, methods>>

StringValues == {"a"}
\* the handler values registration calls are made with
HandlerValues == {"hM", "hO", "hMO", "hMOC", "fn", "nil"} \cup StringValues

\* the type assertion handler.(T)
Implements(handler, T) ==
  CASE T = "Handler" -> handler \in {"hM", "hMO", "hMC", "hMOC"}
    [] T = "OpenHandler" -> handler \in {"hO", "hMO", "hOC", "hMOC"}
    [] T = "CloseHandler" -> handler \in {"hC", "hMC", "hOC", "hMOC"}
    [] T = "HandlerFunc" -> handler = "hf"
    [] T = "func" -> handler = "fn"
    [] T = "string" -> handler \in StringValues

\* handler_validation.go 20-46
isValidHandler(handler, allowedTypes) == \E T \in allowedTypes : Implements(handler, T)

RECURSIVE validateLoop(_, _)
\* handler_validation.go 9-17: the first handler that is not valid ends the loop;
\* reflect.TypeOf(nil) is nil and its String() panics
validateLoop(handlers, allowedTypes) ==
  IF handlers = <<>> THEN "nil"
  ELSE IF ~isValidHandler(Head(handlers), allowedTypes)
         THEN IF Head(handlers) = "nil" THEN "panic" ELSE "InvalidHandlerError"
  ELSE validateLoop(Tail(handlers), allowedTypes)

\* handler_validation.go 5-18
validateHandlers(handlers, allowedTypes) ==
  IF Len(handlers) = 0 THEN "ErrNoHandlers" ELSE validateLoop(handlers, allowedTypes)

validateNormalHandlers(handlers) == validateHandlers(handlers, {"Handler", "HandlerFunc", "func"})
validateOpenHandlers(handlers) == validateHandlers(handlers, {"OpenHandler", "HandlerFunc", "func"})
validateCloseHandlers(handlers) == validateHandlers(handlers, {"CloseHandler", "HandlerFunc", "func"})

\* NewServer: no node (node 0 is the nil pointer)
EmptyServer ==
  [ nodes |-> <<>>,
    firstOpenHandlerNode |-> 0, lastOpenHandlerNode |-> 0,
    firstHandlerNode |-> 0, lastHandlerNode |-> 0,
    firstCloseHandlerNode |-> 0, lastCloseHandlerNode |-> 0 ]

\* part_005 129-140: the node is linked at the end of the open list
LinkOpen(s, node) ==
  LET n == Len(s.nodes) + 1
  IN  IF s.firstOpenHandlerNode = 0
        THEN [s EXCEPT !.nodes = Append(@, node), !.firstOpenHandlerNode = n, !.lastOpenHandlerNode = n]
        ELSE [s EXCEPT !.nodes = Append([@ EXCEPT ![s.lastOpenHandlerNode].next = n], node),
                       !.lastOpenHandlerNode = n]

\* part_005 150-161: the node is linked at the end of the close list
LinkClose(s, node) ==
  LET n == Len(s.nodes) + 1
  IN  IF s.firstCloseHandlerNode = 0
        THEN [s EXCEPT !.nodes = Append(@, node), !.firstCloseHandlerNode = n, !.lastCloseHandlerNode = n]
        ELSE [s EXCEPT !.nodes = Append([@ EXCEPT ![s.lastCloseHandlerNode].next = n], node),
                       !.lastCloseHandlerNode = n]

\* part_005 195-207: the node is linked at the end of the message list
LinkNormal(s, node) ==
  LET n == Len(s.nodes) + 1
  IN  IF s.firstHandlerNode = 0
        THEN [s EXCEPT !.nodes = Append(@, node), !.firstHandlerNode = n, !.lastHandlerNode = n]
        ELSE [s EXCEPT !.nodes = Append([@ EXCEPT ![s.lastHandlerNode].next = n], node),
                       !.lastHandlerNode = n]

\* Server.UseOpen(handlers...): the error returned and the Server afterwards
UseOpenResult(s, handlers) ==
  LET err == validateOpenHandlers(handlers)
  IN  IF err # "nil" THEN [err |-> err, srv |-> s]
      ELSE [err |-> "nil",
            srv |-> LinkOpen(s, [bind |-> "open", hasPattern |-> FALSE, pattern |-> <<>>,
                                 handlers |-> handlers, next |-> 0])]

\* Server.UseClose(handlers...)
UseCloseResult(s, handlers) ==
  LET err == validateCloseHandlers(handlers)
  IN  IF err # "nil" THEN [err |-> err, srv |-> s]
      ELSE [err |-> "nil",
            srv |-> LinkClose(s, [bind |-> "close", hasPattern |-> FALSE, pattern |-> <<>>,
                                  handlers |-> handlers, next |-> 0])]

RECURSIVE onLoop(_, _)
\* part_005 182-193: every handler that is an OpenHandler goes through UseOpen, every
\* one that is a CloseHandler through UseClose; an error ends the loop
onLoop(s, handlers) ==
  IF handlers = <<>> THEN [err |-> "nil", srv |-> s]
  ELSE LET handler == Head(handlers)
           ro == IF Implements(handler, "OpenHandler") THEN UseOpenResult(s, <<handler>>)
                 ELSE [err |-> "nil", srv |-> s]
           rc == IF Implements(handler, "CloseHandler") THEN UseCloseResult(ro.srv, <<handler>>)
                 ELSE [err |-> "nil", srv |-> ro.srv]
       IN  IF ro.err # "nil" THEN ro
           ELSE IF rc.err # "nil" THEN rc
           ELSE onLoop(rc.srv, Tail(handlers))

\* Server.on(event, handlers...); NewPattern returns no error
onResult(s, event, handlers) ==
  LET err == validateNormalHandlers(handlers)
      r == onLoop(s, handlers)
  IN  IF err # "nil" THEN [err |-> err, srv |-> s]
      ELSE IF r.err # "nil" THEN r
      ELSE [err |-> "nil",
            srv |-> LinkNormal(r.srv, [bind |-> "normal", hasPattern |-> TRUE, pattern |-> event,
                                       handlers |-> handlers, next |-> 0])]

\* the characters of a Go string value
CharsOf(str) == IF str = "a" THEN <<"a">> ELSE <<>>

\* strings.HasSuffix
HasSuffix(str, suffix) ==
  Len(str) >= Len(suffix) /\ SubSeq(str, Len(str) - Len(suffix) + 1, Len(str)) = suffix

\* part_005 111-119: a leading string argument of Use is the event, completed with ".**"
UseEvent(handlers) ==
  IF Len(handlers) # 0 /\ Implements(handlers[1], "string")
    THEN LET customEvent == CharsOf(handlers[1])
         IN  IF ~HasSuffix(customEvent, WildcardDeep) /\ ~HasSuffix(customEvent, <<"*">>)
               THEN customEvent \o <<".">> \o WildcardDeep
               ELSE customEvent
    ELSE WildcardDeep

\* part_005 117: the handlers of Use without the leading string
UseHandlers(handlers) ==
  IF Len(handlers) # 0 /\ Implements(handlers[1], "string") THEN Tail(handlers) ELSE handlers

\* Server.Use(handlers...)
UseResult(s, handlers) == onResult(s, UseEvent(handlers), UseHandlers(handlers))

\* no registration call yet
NoReg == [n |-> 0, op |-> "none", event |-> <<>>, handlers |-> <<>>, err |-> "nil", before |-> EmptyServer]

RegInit ==
  /\ reg = NoReg
  /\ methods = [t \in Tids |-> <<>>]

\* a registration call on the Server, made before any connection is served
Registers(op, event, handlers, r) ==
  /\ connPc = "start"
  /\ reg.n < MaxRegs
  /\ reg.err # "panic"
  /\ srv' = r.srv
  /\ reg' = [n |-> reg.n + 1, op |-> op, event |-> event, handlers |-> handlers,
             err |-> r.err, before |-> srv]
  /\ UNCHANGED methods

ServerUse(handlers) == Registers("Use", UseEvent(handlers), UseHandlers(handlers), UseResult(srv, handlers))
ServerOn(event, handlers) == Registers("On", event, handlers, onResult(srv, event, handlers))
ServerUseOpen(handlers) == Registers("UseOpen", <<>>, handlers, UseOpenResult(srv, handlers))
ServerUseClose(handlers) == Registers("UseClose", <<>>, handlers, UseCloseResult(srv, handlers))

\* a chain of tests that looks at the handler's type only, not at the bind type
InvokesByTypeOnly(handler, bindType) ==
  IF Implements(handler, "OpenHandler") THEN "HandleOpen"
  ELSE IF Implements(handler, "CloseHandler") THEN "HandleClose"
  ELSE IF Implements(handler, "Handler") THEN "Handle"
  ELSE IF Implements(handler, "HandlerFunc") THEN "call"
  ELSE IF Implements(handler, "func") THEN "call"
  ELSE "panic"

\* context_next.go 60-82: the method (or the call of the function) Next runs the
\* handler through, "panic" for the Unknown handler type of line 81
Invokes(handler, bindType) ==
  IF Implements(handler, "OpenHandler") /\ bindType = "open" THEN "HandleOpen"
  ELSE IF Implements(handler, "CloseHandler") /\ bindType = "close" THEN "HandleClose"
  ELSE IF Implements(handler, "Handler") /\ bindType = "normal" THEN "Handle"
  ELSE IF Implements(handler, "HandlerFunc") THEN "call"
  ELSE IF Implements(handler, "func") THEN "call"
  ELSE "panic"

\* what Next's invocation of the handler found by goroutine t adds to the history
MethodLog(t) ==
  LET c == Advance(ctx[t])
      bindType == srv.nodes[c.node].bind
  IN  /\ methods' = [methods EXCEPT ![t] =
                       Append(@, [h |-> c.cur, bind |-> bindType, method |-> Invokes(c.cur, bindType)])]
      /\ UNCHANGED reg

(***************************************************************************)
(* Section C.  Context objects, contextPool and sub-contexts               *)
(* (src/context.go 19-136, src/unnamed/part_005 82-107).  A Context is a   *)
(* pointer: contextFromPool hands out a pooled object as it was left, or a *)
(* new one; free clears the object and puts it back.  An error is named    *)
(* by where it was recorded ("errA" in a dispatch's own Context, "errB"    *)
(* in a sub-context), a per-message value by the dispatch that set it.     *)
(***************************************************************************)
VARIABLES
  cx,         \* the Context objects allocated so far
  cxPool,     \* contextPool: the objects in the pool
  dispatches  \* the number of dispatches started so far

cxVars == <<cx, cxPool, dispatches>>

CtxKeys == {"k"}
CtxHandles == 1..Len(cx)

NoValues == [k \in CtxKeys |-> 0]

\* contextPool.New: a Context with an empty associatedValues map (owner, pc, calls,
\* skipped and returned are history: the dispatch that holds the object, whether
\* it is inside a handler, and what its Next calls did; check, readFreed and byMount
\* follow Server.Handle in a handler of the object: the sub-context it has released
\* and is about to read, whether it has read a released sub-context, and whether it
\* has called Next on the object)
NewCtxObject ==
  [ parentContext |-> 0, socket |-> 0, message |-> 0, ctx |-> 0, cancelled |-> FALSE,
    currentHandlerNode |-> 0, Error |-> "nil", ErrorStack |-> "", associatedValues |-> NoValues,
    owner |-> 0, pc |-> "idle", calls |-> 0, skipped |-> 0, returned |-> FALSE,
    check |-> 0, readFreed |-> FALSE, byMount |-> FALSE ]

CxInit ==
  /\ cx = <<>>
  /\ cxPool = {}
  /\ dispatches = 0

\* contextFromPool(): the handle handed out, a pooled object if there is one
CxGetHandles == IF cxPool # {} THEN cxPool ELSE {Len(cx) + 1}

\* the object behind a handle contextFromPool hands out
CxGot(h) == IF h \in CtxHandles THEN cx[h] ELSE NewCtxObject

\* the objects with the object of handle h replaced (or added)
CxWith(h, obj) == IF h \in CtxHandles THEN [cx EXCEPT ![h] = obj] ELSE Append(cx, obj)

\* the sub-contexts of p that are in use
LiveSubs(p) == {h \in CtxHandles : cx[h].owner # 0 /\ cx[h].parentContext = p}

\* NewContextWithNodeAndMessageType (lines 47-59) for a dispatch on socket s: the fields
\* it assigns, the others as contextFromPool left them
NewDispatch(s) ==
  /\ dispatches < MaxDispatches
  /\ dispatches' = dispatches + 1
  /\ \E h \in CxGetHandles :
       /\ cx' = CxWith(h, [CxGot(h) EXCEPT !.ctx = s, !.cancelled = FALSE, !.socket = s,
                                          !.message = dispatches + 1, !.currentHandlerNode = 1,
                                          !.owner = dispatches + 1, !.pc = "idle", !.calls = 0,
                                          !.skipped = 0, !.returned = FALSE,
                                          !.check = 0, !.readFreed = FALSE, !.byMount = FALSE])
       /\ cxPool' = cxPool \ {h}

\* NewSubContextWithNode (lines 61-85), called by Server.Handle inside a handler of p
NewSubContext(p) ==
  /\ cx[p].owner # 0
  /\ cx[p].pc = "handler"
  /\ cx[p].parentContext = 0
  /\ LiveSubs(p) = {}
  /\ \E h \in CxGetHandles :
       /\ cx' = CxWith(h, [CxGot(h) EXCEPT
                  !.ctx = cx[p].socket, !.cancelled = FALSE, !.parentContext = p,
                  !.socket = cx[p].socket, !.message = cx[p].message,
                  !.Error = cx[p].Error, !.ErrorStack = cx[p].ErrorStack,
                  !.associatedValues = [k \in CtxKeys |->
                       IF cx[p].associatedValues[k] # 0 THEN cx[p].associatedValues[k] ELSE @[k]],
                  !.currentHandlerNode = 1,
                  !.owner = cx[p].owner, !.pc = "idle", !.calls = 0,
                  !.skipped = 0, !.returned = FALSE,
                  !.check = 0, !.readFreed = FALSE, !.byMount = FALSE])
       /\ cxPool' = cxPool \ {h}
  /\ UNCHANGED dispatches

\* a deferred call that hands the values to the parent but not the error
tryUpdateParentValuesOnly(objs, h) ==
  LET p == objs[h].parentContext
  IN  IF p = 0 THEN objs
      ELSE [objs EXCEPT ![p].associatedValues = [k \in CtxKeys |->
                 IF objs[h].associatedValues[k] # 0 THEN objs[h].associatedValues[k] ELSE @[k]]]

\* Context.tryUpdateParent (lines 125-136) on the object h of objs
tryUpdateParent(objs, h) ==
  LET p == objs[h].parentContext
  IN  IF p = 0 THEN objs
      ELSE [objs EXCEPT ![p].Error = objs[h].Error,
                        ![p].ErrorStack = objs[h].ErrorStack,
                        ![p].associatedValues = [k \in CtxKeys |->
                            IF objs[h].associatedValues[k] # 0 THEN objs[h].associatedValues[k] ELSE @[k]]]

\* the goroutine of the dispatch is running code of the Context h: h is in use, no
\* sub-context of h is, and no Server.Handle in a handler of h is still to return
Running(h) == cx[h].owner # 0 /\ LiveSubs(h) = {} /\ cx[h].check = 0

\* Context.Next is called on h (context_next.go 10-15, 56-82): with an Error it returns
\* at once, the deferred tryUpdateParent run; otherwise a handler is invoked
CtxNextEnter(h) ==
  /\ Running(h)
  /\ cx[h].pc = "idle"
  /\ cx[h].calls < MaxNextCalls
  /\ cx' = IF cx[h].Error # "nil"
             THEN tryUpdateParent([cx EXCEPT ![h].calls = @ + 1, ![h].skipped = @ + 1,
                                              ![h].returned = TRUE], h)
             ELSE [cx EXCEPT ![h].calls = @ + 1, ![h].pc = "handler"]
  /\ UNCHANGED <<cxPool, dispatches>>

\* the handler calls ctx.Set(key, value) (line 170)
CtxSet(h, k) ==
  /\ Running(h)
  /\ cx[h].pc = "handler"
  /\ cx' = [cx EXCEPT ![h].associatedValues[k] = cx[h].owner]
  /\ UNCHANGED <<cxPool, dispatches>>

\* the handler panics: execWithCtxRecovery (context_next.go 91-105) records the error;
\* the handler is over, Next returns and the deferred tryUpdateParent runs
CtxPanic(h) ==
  /\ Running(h)
  /\ cx[h].pc = "handler"
  /\ LET err == IF cx[h].parentContext = 0 THEN "errA" ELSE "errB"
     IN  cx' = tryUpdateParent([cx EXCEPT ![h].Error = err, ![h].ErrorStack = err,
                                          ![h].pc = "idle", ![h].currentHandlerNode = 0,
                                          ![h].returned = TRUE], h)
  /\ UNCHANGED <<cxPool, dispatches>>

\* the handler returns, Next clears the cursor (context_next.go 86-89) and returns, the
\* deferred tryUpdateParent runs
CtxHandlerReturn(h) ==
  /\ Running(h)
  /\ cx[h].pc = "handler"
  /\ cx' = tryUpdateParent([cx EXCEPT ![h].pc = "idle", ![h].currentHandlerNode = 0,
                                      ![h].returned = TRUE], h)
  /\ UNCHANGED <<cxPool, dispatches>>

\* a release that leaves the Error and the values in the object
FreedKeepsErrorAndValues(obj) ==
  [obj EXCEPT !.cancelled = TRUE, !.parentContext = 0, !.socket = 0, !.message = 0,
              !.currentHandlerNode = 0,
              !.owner = 0, !.pc = "idle", !.readFreed = FALSE, !.byMount = FALSE]

\* Context.free (lines 99-123): the object as it is put into the pool; c.ctx is
\* cancelled, not cleared
Freed(obj) ==
  [obj EXCEPT !.cancelled = TRUE, !.parentContext = 0, !.socket = 0, !.message = 0,
              !.Error = "nil", !.ErrorStack = "", !.currentHandlerNode = 0,
              !.associatedValues = NoValues,
              !.owner = 0, !.pc = "idle", !.readFreed = FALSE, !.byMount = FALSE]

\* ctx.free() once Next has returned: socket.go 172, 181, 187 for the Context of a
\* dispatch, part_005 85, 94, 103 for a sub-context
CtxFree(h) ==
  /\ Running(h)
  /\ cx[h].pc = "idle"
  /\ cx[h].returned
  /\ cx' = [cx EXCEPT ![h] = Freed(cx[h])]
  /\ cxPool' = cxPool \cup {h}
  /\ UNCHANGED dispatches

\* subCtx.free() in Server.Handle, HandleOpen, HandleClose (part_005 85, 94, 103), the
\* lines after it still to run in the handler of the parent
ServerHandleFree(h) ==
  /\ cx[h].parentContext # 0
  /\ Running(h)
  /\ cx[h].pc = "idle"
  /\ cx[h].returned
  /\ cx' = [cx EXCEPT ![h] = Freed(cx[h]), ![cx[h].parentContext].check = h]
  /\ cxPool' = cxPool \cup {h}
  /\ UNCHANGED dispatches

\* Server.Handle, HandleOpen, HandleClose (part_005 86-88, 95-97, 104-106) in a handler
\* of p: subCtx.currentHandlerNode is read from the object just released, which is in
\* the pool or in the hands of whoever took it since; when it is not nil, ctx.Next()
\* is called on p
ServerHandleCheck(p) ==
  /\ cx[p].owner # 0
  /\ cx[p].check # 0
  /\ cx' = [cx EXCEPT ![p].check = 0, ![p].readFreed = TRUE,
                      ![p].byMount = @ \/ cx[cx[p].check].currentHandlerNode # 0]
  /\ UNCHANGED <<cxPool, dispatches>>

(***************************************************************************)
(* Section L.  The mutexes of rooms (src/socket.go 229-275,                *)
(* src/unnamed/part_001 351-484).  Only the locking is followed: a call is *)
(* the sequence of Lock, RLock, Unlock and RUnlock calls it makes, and     *)
(* whatever the maps hold decides nothing here, since every branch and     *)
(* every order of a loop over a map is one of the sequences.  A mutex is   *)
(* a sync.RWMutex: a goroutine waiting in Lock keeps new readers out.      *)
(***************************************************************************)
VARIABLES
  lth,   \* per goroutine: the locking calls still to make, and the mutexes held, oldest first
  mx     \* per mutex: the goroutine holding it for writing (0: none), the readers, the goroutines waiting in Lock

lockVars == <<lth, mx>>

LockThreads == 1..NumLockThreads
LockRooms == 1..NumLockRooms

\* Socket.roomsMx of socket s
SocketMx(s) == [kind |-> 1, id |-> s]
\* RoomManager.mu
ManagerMx == [kind |-> 2, id |-> 0]
\* Room.mu of room r
RoomMx(r) == [kind |-> 3, id |-> r]

Mutexes == {SocketMx(s) : s \in Sockets} \cup {ManagerMx} \cup {RoomMx(r) : r \in LockRooms}

DoLock(m) == [op |-> "Lock", m |-> m]
DoUnlock(m) == [op |-> "Unlock", m |-> m]
DoRLock(m) == [op |-> "RLock", m |-> m]
DoRUnlock(m) == [op |-> "RUnlock", m |-> m]

IdleLocks == [prog |-> <<>>, held |-> <<>>]
FreeMx == [w |-> 0, rd |-> {}, wait |-> {}]

LockInit ==
  /\ lth = [t \in LockThreads |-> IdleLocks]
  /\ mx = [m \in Mutexes |-> FreeMx]

\* Room.addSocket, Room.removeSocket, Room.RemoveAll (part_001 427-448, 461-465)
RoomWriteLocks(r) == <<DoLock(RoomMx(r)), DoUnlock(RoomMx(r))>>

\* Room.Sockets, Room.Size, Room.Has (part_001 466-484)
RoomReadLocks(r) == <<DoRLock(RoomMx(r)), DoRUnlock(RoomMx(r))>>

\* RoomManager.Room (part_001 351-364)
RoomManagerRoomLocks == <<DoLock(ManagerMx), DoUnlock(ManagerMx)>>

\* Socket.Join (socket.go 229-239): roomsMx held across RoomManager.Room and addSocket
SocketJoinLocks(s, r) ==
  <<DoLock(SocketMx(s))>> \o RoomManagerRoomLocks \o RoomWriteLocks(r) \o <<DoUnlock(SocketMx(s))>>

\* Socket.Leave (socket.go 241-252): roomsMx released before removeSocket, which is
\* called when the entry existed
SocketLeaveLocks(s, r, exists) ==
  <<DoLock(SocketMx(s)), DoUnlock(SocketMx(s))>> \o (IF exists THEN RoomWriteLocks(r) ELSE <<>>)

\* Room.Join (part_001 449-454)
RoomJoinLocks(r, s) ==
  <<DoLock(SocketMx(s))>> \o RoomWriteLocks(r) \o <<DoUnlock(SocketMx(s))>>

\* a Room.Leave that takes the room's mutex before the socket's
RoomLeaveLocksRoomFirst(r, s) ==
  <<DoLock(RoomMx(r)), DoLock(SocketMx(s)), DoUnlock(SocketMx(s)), DoUnlock(RoomMx(r))>>

\* Room.Leave (part_001 455-460)
RoomLeaveLocks(r, s) ==
  <<DoLock(SocketMx(s))>> \o RoomWriteLocks(r) \o <<DoUnlock(SocketMx(s))>>

RECURSIVE EachRoomWrite(_)
\* a loop over the rooms in the order o that calls removeSocket on each
EachRoomWrite(o) == IF o = <<>> THEN <<>> ELSE RoomWriteLocks(Head(o)) \o EachRoomWrite(Tail(o))

RECURSIVE EachRoomRead(_)
\* a loop over the rooms in the order o that reads each under its read lock
EachRoomRead(o) == IF o = <<>> THEN <<>> ELSE RoomReadLocks(Head(o)) \o EachRoomRead(Tail(o))

\* Socket.leaveAllRooms (socket.go 265-275): the rooms of the socket, in the order o
\* of the map's iteration
leaveAllRoomsLocks(s, o) ==
  <<DoLock(SocketMx(s)), DoUnlock(SocketMx(s))>> \o EachRoomWrite(o)

\* RoomManager.DeleteRoom (part_001 375-382): RemoveAll under the manager's mutex
\* when the room exists
DeleteRoomLocks(r, exists) ==
  <<DoLock(ManagerMx)>> \o (IF exists THEN RoomWriteLocks(r) ELSE <<>>) \o <<DoUnlock(ManagerMx)>>

\* RoomManager.GetAllSockets (part_001 392-408): every room read under the manager's
\* read lock
GetAllSocketsLocks(o) ==
  <<DoRLock(ManagerMx)>> \o EachRoomRead(o) \o <<DoRUnlock(ManagerMx)>>

\* RoomManager.GetSocketByID (part_001 409-423): the rooms read until the socket is found
GetSocketByIDLocks(o) ==
  <<DoRLock(ManagerMx)>> \o EachRoomRead(o) \o <<DoRUnlock(ManagerMx)>>

\* Room.Emit and Room.Broadcast (part_001 485-539): Room.Sockets, then the sends
\* with no mutex of rooms held
EmitLocks(r) == RoomReadLocks(r)

\* the orders in which a loop over a map of rooms can visit the rooms the map holds
RoomOrders == UNION {Orders(S) : S \in SUBSET LockRooms}

\* a goroutine calls an operation: these are the locking calls it will make
LockCall(t, prog) ==
  /\ lth[t].prog = <<>>
  /\ lth' = [lth EXCEPT ![t].prog = prog]
  /\ UNCHANGED mx

\* the next locking call of goroutine t is op
AtLockOp(t, op) == lth[t].prog # <<>> /\ Head(lth[t].prog).op = op

\* the mutex of the next locking call of goroutine t
NextMx(t) == Head(lth[t].prog).m

\* sync.RWMutex.Lock returns: nobody holds the mutex
LockAcquire(t) ==
  /\ AtLockOp(t, "Lock")
  /\ mx[NextMx(t)].w = 0
  /\ mx[NextMx(t)].rd = {}
  /\ mx' = [mx EXCEPT ![NextMx(t)].w = t, ![NextMx(t)].wait = @ \ {t}]
  /\ lth' = [lth EXCEPT ![t].prog = Tail(@), ![t].held = Append(@, NextMx(t))]

\* sync.RWMutex.Lock waits: the mutex is held, and from now on RLock waits too
LockWait(t) ==
  /\ AtLockOp(t, "Lock")
  /\ mx[NextMx(t)].w # 0 \/ mx[NextMx(t)].rd # {}
  /\ t \notin mx[NextMx(t)].wait
  /\ mx' = [mx EXCEPT ![NextMx(t)].wait = @ \cup {t}]
  /\ UNCHANGED lth

\* sync.RWMutex.RLock returns: no writer holds the mutex or waits for it
RLockAcquire(t) ==
  /\ AtLockOp(t, "RLock")
  /\ mx[NextMx(t)].w = 0
  /\ mx[NextMx(t)].wait = {}
  /\ mx' = [mx EXCEPT ![NextMx(t)].rd = @ \cup {t}]
  /\ lth' = [lth EXCEPT ![t].prog = Tail(@), ![t].held = Append(@, NextMx(t))]

\* the mutexes of held but the latest one equal to m
Released(held, m) ==
  LET i == CHOOSE j \in 1..Len(held) : held[j] = m /\ \A k \in (j + 1)..Len(held) : held[k] # m
  IN  SubSeq(held, 1, i - 1) \o SubSeq(held, i + 1, Len(held))

\* sync.RWMutex.Unlock
LockRelease(t) ==
  /\ AtLockOp(t, "Unlock")
  /\ mx' = [mx EXCEPT ![NextMx(t)].w = 0]
  /\ lth' = [lth EXCEPT ![t].prog = Tail(@), ![t].held = Released(@, NextMx(t))]

\* sync.RWMutex.RUnlock
RLockRelease(t) ==
  /\ AtLockOp(t, "RUnlock")
  /\ mx' = [mx EXCEPT ![NextMx(t)].rd = @ \ {t}]
  /\ lth' = [lth EXCEPT ![t].prog = Tail(@), ![t].held = Released(@, NextMx(t))]

\* socket.Send(messageType, data) to socket s (socket.go 113-118): a call that takes
\* no mutex of rooms (kind 0: no mutex, id: the receiving socket)
DoSend(s) == [op |-> "Send", m |-> [kind |-> 0, id |-> s]]

RECURSIVE Sends(_)
\* the Send calls of a loop over the sockets q
Sends(q) == IF q = <<>> THEN <<>> ELSE <<DoSend(Head(q))>> \o Sends(Tail(q))

\* the orders in which a loop can visit the sockets of a snapshot
SocketOrders == UNION {Orders(S) : S \in SUBSET Sockets}

\* a Room.Emit that sends while it holds the room's read lock
RoomEmitCallsUnderLock(r, q) == <<DoRLock(RoomMx(r))>> \o Sends(q) \o <<DoRUnlock(RoomMx(r))>>

\* Room.Emit, Room.Broadcast (part_001 485-539): Room.Sockets() returns the snapshot,
\* then the loop sends to the sockets q of it that are not excluded
RoomEmitCalls(r, q) == RoomReadLocks(r) \o Sends(q)

RECURSIVE EachNamedRoom(_)
\* part_001 602-611: GetRoom(roomName), then the room's members copied under its read lock
EachNamedRoom(o) ==
  IF o = <<>> THEN <<>>
  ELSE <<DoRLock(ManagerMx), DoRUnlock(ManagerMx)>> \o RoomReadLocks(Head(o)) \o EachNamedRoom(Tail(o))

\* RoomEmitter.emitToMultipleRooms (part_001 597-627): the rooms o that exist, then the sends
emitToMultipleRoomsCalls(o, q) == EachNamedRoom(o) \o Sends(q)

\* Context.Broadcast, Context.BroadcastExceptMe (part_001 628-657): GetAllSockets, then the sends
ContextBroadcastCalls(o, q) == GetAllSocketsLocks(o) \o Sends(q)

\* Context.EmitTo (part_001 658-668): GetSocketByID, then one send when the socket was found
EmitToCalls(o, q) == GetSocketByIDLocks(o) \o Sends(q)

\* the next call of goroutine t is a Send: it is made
SendStep(t) ==
  /\ AtLockOp(t, "Send")
  /\ lth' = [lth EXCEPT ![t].prog = Tail(@)]
  /\ UNCHANGED mx

(***************************************************************************)
(* Section T.  Cancellation tokens (src/socket.go 47, 93-105,              *)
(* src/context.go 47-49, 61-63, 99-104, 360-403).  Every Socket, Context,  *)
(* sub-context and timed Request owns a context.Context made by            *)
(* context.WithCancel or context.WithTimeout from its parent's, so the     *)
(* tokens form a forest with one tree per socket; cancelling a token       *)
(* cancels the tokens derived from it.                                     *)
(***************************************************************************)
VARIABLES
  tk    \* the tokens made so far, the sockets' first

tokVars == <<tk>>

TkHandles == 1..Len(tk)

\* a token: what owns it, the token it was derived from (0: context.Background()),
\* whether it is done, whether its owner is in use (a socket: open; a Context: not
\* released; a Request: not returned), whether the response of a Request is in its
\* channel, and what the Request returned
NewToken(kind, parent, done) ==
  [kind |-> kind, parent |-> parent, done |-> done, live |-> TRUE, resp |-> FALSE, result |-> "none"]

\* socket.go 47: NewSocket derives the socket's token from context.Background()
TokInit == tk = [s \in Sockets |-> NewToken("socket", 0, FALSE)]

\* token i is token a or was derived from it, directly or not
RECURSIVE IsUnder(_, _)
IsUnder(i, a) == i = a \/ (tk[i].parent # 0 /\ IsUnder(tk[i].parent, a))

\* the socket of a token
RECURSIVE SocketOf(_)
SocketOf(i) == IF tk[i].parent = 0 THEN i ELSE SocketOf(tk[i].parent)

\* the tokens derived directly from token a whose owners are in use
LiveChildren(a) == {i \in TkHandles : tk[i].parent = a /\ tk[i].live}

\* a CancelFunc that cancels the token it was made with and nothing derived from it
CancelSelfOnly(toks, a) == [toks EXCEPT ![a].done = TRUE]

\* the CancelFunc of token a: a and every token derived from it are done
Cancel(toks, a) == [i \in DOMAIN toks |-> IF IsUnder(i, a) THEN [toks[i] EXCEPT !.done = TRUE] ELSE toks[i]]

\* context.WithCancel(parent), context.WithTimeout(parent, d): the new token is done
\* from the start when its parent is
Derive(kind, parent) == Append(tk, NewToken(kind, parent, tk[parent].done))

\* Socket.Close (socket.go 93-105): the first call cancels the socket's token
TkSocketClose(s) ==
  /\ tk[s].kind = "socket"
  /\ tk[s].live
  /\ tk' = Cancel([tk EXCEPT ![s].live = FALSE], s)

\* NewContextWithNodeAndMessageType (context.go 47-49) for a dispatch, an open or a
\* close chain of socket s
TkNewContext(s) ==
  /\ tk[s].kind = "socket"
  /\ Len(tk) < MaxTokens
  /\ tk' = Derive("context", s)

\* NewSubContextWithNode (context.go 61-63), called by Server.Handle in a handler of c
TkNewSubContext(c) ==
  /\ tk[c].kind = "context"
  /\ tk[c].live
  /\ LiveChildren(c) = {}
  /\ Len(tk) < MaxTokens
  /\ tk' = Derive("context", c)

\* RequestWithTimeout (context.go 364-371): a handler of c starts a Request
TkRequest(c) ==
  /\ tk[c].kind = "context"
  /\ tk[c].live
  /\ LiveChildren(c) = {}
  /\ Len(tk) < MaxTokens
  /\ tk' = Derive("request", c)

\* the driver sends the response into the channel of the Request (context_next.go 16-21)
TkResponse(r) ==
  /\ tk[r].kind = "request"
  /\ tk[r].live
  /\ ~tk[r].resp
  /\ tk' = [tk EXCEPT ![r].resp = TRUE]

\* the timeout of the Request expires
TkTimeout(r) ==
  /\ tk[r].kind = "request"
  /\ tk[r].live
  /\ ~tk[r].done
  /\ tk' = Cancel(tk, r)

\* context.go 397-403: the select takes the response or sees ctx.Done(), whichever is
\* ready; the deferred cancel() runs
TkRequestReturn(r, how) ==
  /\ tk[r].kind = "request"
  /\ tk[r].live
  /\ \/ how = "data" /\ tk[r].resp
     \/ how = "cancelled" /\ tk[r].done
  /\ tk' = Cancel([tk EXCEPT ![r].live = FALSE, ![r].result = how], r)

\* Context.free (context.go 99-104): c.cancelCtx(); Next has returned, so no Request
\* and no sub-context of c is outstanding
TkFree(c) ==
  /\ tk[c].kind = "context"
  /\ tk[c].live
  /\ LiveChildren(c) = {}
  /\ tk' = Cancel([tk EXCEPT ![c].live = FALSE], c)

vars == <<patSegs, evSegs, matchDone, matched, rmRooms, roomObjs, sRooms, thr, roomsMx,
          closed, closeStatus, closeReason, closeStatusSource, cancelled, firstClose,
          lastClose, closeFlips, srv, connPc, transport, tstate, ctx, stack, log, errRecorded, fatal,
          toSend, interceptors, chans, icpt, msgOf, msgData, pool, chanMsg, reqGot, em, wire, reg, methods, cx, cxPool, dispatches, lth, mx, tk>>

lifeVarsButEmit == <<latchVars, srv, connVars, taskVars, reqVars, msgVars, regVars, cxVars, lockVars, tokVars>>

lifeVars == <<lifeVarsButEmit, emitVars>>

InitPattern == PatternInit /\ RoomsInit /\ LifeInit /\ MsgInit /\ EmitInit /\ TokInit /\ LockInit /\ CxInit /\ RegInit

NextPattern == DoMatch /\ UNCHANGED <<roomVars, thrVars, lifeVars>>

\* the pattern matcher applied to every pattern and event of the bounded sets
SpecPattern == InitPattern /\ [][NextPattern]_vars

InitRooms == PatternIdle /\ RoomsInit /\ LifeInit /\ MsgInit /\ EmitInit /\ TokInit /\ LockInit /\ CxInit /\ RegInit

\* what a whole room call leaves alone
SeqFrame == UNCHANGED <<patternVars, thrVars, lifeVars>>

NextRoomsSeq ==
  \/ \E n \in RoomNames : RoomManagerRoom(n) /\ SeqFrame
  \/ \E s \in Sockets, n \in RoomNames : SocketJoin(s, n) /\ SeqFrame
  \/ \E s \in Sockets, n \in RoomNames : SocketLeave(s, n) /\ SeqFrame
  \/ \E s \in Sockets, r \in Handles : RoomJoin(r, s) /\ SeqFrame
  \/ \E s \in Sockets, r \in Handles : RoomLeave(r, s) /\ SeqFrame
  \/ \E n \in RoomNames : DeleteRoom(n) /\ SeqFrame
  \/ \E s \in Sockets : leaveAllRooms(s) /\ SeqFrame

\* the room calls one after the other, each completed before the next starts
SpecRoomsSeq == InitRooms /\ [][NextRoomsSeq]_vars

\* what a step of a concurrent room call leaves alone
ConcFrame == UNCHANGED <<patternVars, lifeVars>>

NextRoomsConc ==
  \/ \E t \in Threads, s \in Sockets, n \in RoomNames : JoinStart(t, s, n) /\ ConcFrame
  \/ \E t \in Threads : JoinAdd(t) /\ ConcFrame
  \/ \E t \in Threads, s \in Sockets, n \in RoomNames : LeaveStart(t, s, n) /\ ConcFrame
  \/ \E t \in Threads : LeaveRemove(t) /\ ConcFrame
  \/ \E t \in Threads, s \in Sockets : LeaveAllStart(t, s) /\ ConcFrame
  \/ \E t \in Threads : LeaveAllRemove(t) /\ ConcFrame

\* Socket.Join, Socket.Leave and leaveAllRooms called by concurrent goroutines
SpecRoomsConc == InitRooms /\ [][NextRoomsConc]_vars

Init == PatternIdle /\ RoomsInit /\ LifeInit /\ MsgInit /\ EmitInit /\ TokInit /\ LockInit /\ CxInit /\ RegInit

\* what a step of the driver leaves alone
DriverFrame == UNCHANGED <<patternVars, roomVars, thrVars, latchVars, srv, connVars, reqVars, msgVars, emitVars, regVars, cxVars, lockVars, tokVars>>
\* what a Close call leaves alone
CloseFrame == UNCHANGED <<patternVars, roomVars, thrVars, srv, taskVars, reqVars, msgVars, emitVars, regVars, cxVars, lockVars, tokVars>>
\* what a room call of a handler leaves alone
RoomFrame == UNCHANGED <<patternVars, thrVars, latchVars, srv, connVars, taskVars, reqVars, msgVars, emitVars, regVars, cxVars, lockVars, tokVars>>
\* what a step of HandleConnection on its Context leaves alone
ConnFrame == UNCHANGED <<patternVars, roomVars, thrVars, latchVars, srv, reqVars, msgVars, emitVars, regVars, cxVars, lockVars, tokVars>>
\* what a step of a request or of an interception leaves alone
ReqFrame == UNCHANGED <<patternVars, roomVars, thrVars, latchVars, srv, connVars, msgVars, emitVars, regVars, cxVars, lockVars, tokVars>>

\* what a step of HandleConnection outside every Context leaves alone
StopFrame == UNCHANGED <<patternVars, roomVars, thrVars, latchVars, srv, taskVars, reqVars, msgVars, emitVars, regVars, cxVars, lockVars, tokVars>>

Next ==
  \/ HandleOpen /\ ConnFrame
  \/ HandleOpenReturn /\ ConnFrame
  \/ ReadFrame /\ ConnFrame
  \/ \E st \in ClientStatuses : ReadCloseStatus(st) /\ CloseFrame
  \/ ReadCancelled /\ StopFrame
  \/ ReadFatal /\ StopFrame
  \/ HandleClose /\ ConnFrame
  \/ HandleCloseReturn /\ ConnFrame
  \/ ConnLeaveAllRooms /\ UNCHANGED <<patternVars, thrVars, latchVars, srv, taskVars, reqVars, msgVars, emitVars, regVars, cxVars, lockVars, tokVars>>
  \/ TransportClose /\ StopFrame
  \/ \E t \in MsgTids : TaskFinish(t) /\ DriverFrame
  \/ \E t \in Tids : NextReturn(t) /\ DriverFrame
  \/ \E t \in Tids : NextInvoke(t) /\ DriverFrame
  \/ \E t \in Tids : HCallNext(t) /\ DriverFrame
  \/ \E t \in Tids : HReturn(t) /\ DriverFrame
  \/ \E t \in Tids : HPanic(t) /\ DriverFrame
  \/ \E t \in Tids : HSetError(t) /\ DriverFrame
  \/ \E t \in Tids, a \in ServerCloses : HClose(t, a) /\ CloseFrame /\ UNCHANGED connVars
  \/ \E t \in Tids, n \in LifeRooms : HJoin(t, n) /\ RoomFrame
  \/ \E t \in Tids, n \in LifeRooms : HLeave(t, n) /\ RoomFrame

\* one connection from NewSocket to the end of HandleConnection
Spec == Init /\ [][Next]_vars

\* a Server after Use(m1); Use(m2), with no open and no close handlers
RequestServer ==
  [ nodes |-> <<
      [bind |-> "normal", hasPattern |-> TRUE, pattern |-> WildcardDeep, handlers |-> <<"m1">>, next |-> 2],
      [bind |-> "normal", hasPattern |-> TRUE, pattern |-> WildcardDeep, handlers |-> <<"m2">>, next |-> 0] >>,
    firstOpenHandlerNode |-> 0,
    firstHandlerNode |-> 1,
    firstCloseHandlerNode |-> 0 ]

\* LifeInit with RequestServer for LifeServer and MaxReqFrames for MaxFrames
InitRequest ==
  /\ PatternIdle /\ RoomsInit /\ MsgInit /\ EmitInit /\ TokInit /\ LockInit /\ CxInit /\ RegInit
  /\ closed = FALSE
  /\ closeStatus = 0
  /\ closeReason = ""
  /\ closeStatusSource = "client"
  /\ cancelled = FALSE
  /\ firstClose = [called |-> FALSE, status |-> 0, reason |-> "", source |-> "client"]
  /\ lastClose = [called |-> FALSE, status |-> 0, reason |-> "", source |-> "client"]
  /\ closeFlips = 0
  /\ srv = RequestServer
  /\ connPc = "start"
  /\ transport = [closed |-> FALSE, status |-> 0, reason |-> ""]
  /\ tstate = [t \in MsgTids |-> "none"]
  /\ ctx = [t \in Tids |-> NoCtx]
  /\ stack = [t \in Tids |-> <<>>]
  /\ log = [t \in Tids |-> <<>>]
  /\ errRecorded = [t \in Tids |-> FALSE]
  /\ fatal = FALSE
  /\ toSend = MaxReqFrames
  /\ interceptors = {}
  /\ chans = <<>>
  /\ icpt = [t \in Tids |-> NoIcpt]

NextRequest ==
  \/ HandleOpen /\ ConnFrame
  \/ HandleOpenReturn /\ ConnFrame
  \/ ReadFrame /\ ConnFrame
  \/ \E st \in ClientStatuses : ReadCloseStatus(st) /\ CloseFrame
  \/ HandleClose /\ ConnFrame
  \/ HandleCloseReturn /\ ConnFrame
  \/ ConnLeaveAllRooms /\ UNCHANGED <<patternVars, thrVars, latchVars, srv, taskVars, reqVars, msgVars, emitVars, regVars, cxVars, lockVars, tokVars>>
  \/ TransportClose /\ StopFrame
  \/ \E t \in MsgTids : TaskFinish(t) /\ DriverFrame
  \/ \E t \in Tids : NextReturn(t) /\ DriverFrame
  \/ \E t \in Tids : NextInvoke(t) /\ DriverFrame
  \/ \E t \in Tids : NextIntercept(t) /\ DriverFrame
  \/ \E t \in Tids : NextSend(t) /\ ReqFrame
  \/ \E t \in Tids : NextSendPanics(t) /\ ReqFrame
  \/ \E t \in Tids : HCallNext(t) /\ DriverFrame
  \/ \E t \in Tids : HReturn(t) /\ DriverFrame
  \/ \E t \in Tids, id \in 1..MaxRequests : HSetMessageID(t, id) /\ DriverFrame
  \/ \E t \in Tids : HRequest(t) /\ ReqFrame
  \/ \E t \in Tids : RequestReceive(t) /\ ReqFrame
  \/ \E t \in Tids : RequestCancelled(t) /\ ReqFrame
  \/ \E t \in Tids : RequestRemove(t) /\ ReqFrame
  \/ \E t \in Tids : RequestCloseChan(t) /\ ReqFrame

\* one connection whose handlers make requests and whose client answers them
SpecRequest == InitRequest /\ [][NextRequest]_vars

\* NewSocket for a connection served by this Server, whose client sends this many frames
LifeInitWith(server, frames) ==
  /\ closed = FALSE
  /\ closeStatus = 0
  /\ closeReason = ""
  /\ closeStatusSource = "client"
  /\ cancelled = FALSE
  /\ firstClose = [called |-> FALSE, status |-> 0, reason |-> "", source |-> "client"]
  /\ lastClose = [called |-> FALSE, status |-> 0, reason |-> "", source |-> "client"]
  /\ closeFlips = 0
  /\ srv = server
  /\ connPc = "start"
  /\ transport = [closed |-> FALSE, status |-> 0, reason |-> ""]
  /\ tstate = [t \in MsgTids |-> "none"]
  /\ ctx = [t \in Tids |-> NoCtx]
  /\ stack = [t \in Tids |-> <<>>]
  /\ log = [t \in Tids |-> <<>>]
  /\ errRecorded = [t \in Tids |-> FALSE]
  /\ fatal = FALSE
  /\ toSend = frames
  /\ interceptors = {}
  /\ chans = <<>>
  /\ icpt = [t \in Tids |-> NoIcpt]

\* a Server after Use(mw); On("a.*", h1, h2); On("b", h3), with no open and no close
\* handlers
EventServer ==
  [ nodes |-> <<
      [bind |-> "normal", hasPattern |-> TRUE, pattern |-> WildcardDeep,      handlers |-> <<"mw">>,       next |-> 2],
      [bind |-> "normal", hasPattern |-> TRUE, pattern |-> <<"a", ".", "*">>, handlers |-> <<"h1", "h2">>, next |-> 3],
      [bind |-> "normal", hasPattern |-> TRUE, pattern |-> <<"b">>,           handlers |-> <<"h3">>,       next |-> 0] >>,
    firstOpenHandlerNode |-> 0,
    firstHandlerNode |-> 1,
    firstCloseHandlerNode |-> 0 ]

InitEvent == PatternIdle /\ RoomsInit /\ MsgInit /\ EmitInit /\ TokInit /\ LockInit /\ CxInit /\ RegInit /\ LifeInitWith(EventServer, MaxFrames)

NextEvent ==
  \/ HandleOpen /\ ConnFrame
  \/ HandleOpenReturn /\ ConnFrame
  \/ ReadFrame /\ ConnFrame
  \/ \E st \in ClientStatuses : ReadCloseStatus(st) /\ CloseFrame
  \/ HandleClose /\ ConnFrame
  \/ HandleCloseReturn /\ ConnFrame
  \/ ConnLeaveAllRooms /\ UNCHANGED <<patternVars, thrVars, latchVars, srv, taskVars, reqVars, msgVars, emitVars, regVars, cxVars, lockVars, tokVars>>
  \/ TransportClose /\ StopFrame
  \/ \E t \in MsgTids : TaskFinish(t) /\ DriverFrame
  \/ \E t \in Tids : NextReturn(t) /\ DriverFrame
  \/ \E t \in Tids : NextInvoke(t) /\ DriverFrame
  \/ \E t \in Tids : HCallNext(t) /\ DriverFrame
  \/ \E t \in Tids : HReturn(t) /\ DriverFrame
  \/ \E t \in Tids, ev \in Events : HSetMessageEvent(t, ev) /\ DriverFrame

\* one connection whose handlers are registered under event patterns and rename the
\* message
SpecEvent == InitEvent /\ [][NextEvent]_vars

\* a Server after Use(m1), with no open and no close handlers
PoolServer ==
  [ nodes |-> <<
      [bind |-> "normal", hasPattern |-> TRUE, pattern |-> WildcardDeep, handlers |-> <<"m1">>, next |-> 0] >>,
    firstOpenHandlerNode |-> 0,
    firstHandlerNode |-> 1,
    firstCloseHandlerNode |-> 0 ]

InitPool == PatternIdle /\ RoomsInit /\ MsgInit /\ EmitInit /\ TokInit /\ LockInit /\ CxInit /\ RegInit /\ LifeInitWith(PoolServer, MaxPoolFrames)

\* what a step leaves alone besides the variables of its action and the messages
PoolFrame == UNCHANGED <<patternVars, roomVars, thrVars, latchVars, srv, emitVars, regVars, cxVars, lockVars, tokVars>>

NextPool ==
  \/ HandleOpen /\ MsgGet(ConnTid, 0) /\ PoolFrame /\ UNCHANGED reqVars
  \/ HandleOpenReturn /\ MsgPut(ConnTid) /\ PoolFrame /\ UNCHANGED reqVars
  \/ ReadFrame /\ MsgGet(FramesRead + 1, FramesRead + 1) /\ PoolFrame /\ UNCHANGED reqVars
  \/ ReadCloseStatus(StatusNormalClosure) /\ CloseFrame
  \/ HandleClose /\ MsgGet(ConnTid, 0) /\ PoolFrame /\ UNCHANGED reqVars
  \/ HandleCloseReturn /\ MsgPut(ConnTid) /\ PoolFrame /\ UNCHANGED reqVars
  \/ ConnLeaveAllRooms /\ UNCHANGED <<patternVars, thrVars, latchVars, srv, taskVars, reqVars, msgVars, emitVars, regVars, cxVars, lockVars, tokVars>>
  \/ TransportClose /\ StopFrame
  \/ \E t \in MsgTids : TaskFinish(t) /\ MsgPut(t) /\ PoolFrame /\ UNCHANGED <<connVars, reqVars>>
  \/ \E t \in Tids : NextReturn(t) /\ DriverFrame
  \/ \E t \in Tids : NextInvoke(t) /\ DriverFrame
  \/ \E t \in Tids : NextIntercept(t) /\ DriverFrame
  \/ \E t \in Tids : NextSend(t) /\ MsgSend(t) /\ PoolFrame /\ UNCHANGED connVars
  \/ \E t \in Tids : NextSendPanics(t) /\ ReqFrame
  \/ \E t \in Tids : HCallNext(t) /\ Top(stack[t]).calls = 0 /\ DriverFrame
  \/ \E t \in Tids : HReturn(t) /\ DriverFrame
  \/ \E t \in Tids, id \in 1..MaxRequests : HSetMessageID(t, id) /\ ~ctx[t].hasSetID /\ DriverFrame
  \/ \E t \in Tids : HRequest(t) /\ MsgRequest /\ PoolFrame /\ UNCHANGED connVars
  \/ \E t \in Tids : RequestReceive(t) /\ MsgReceive(t) /\ PoolFrame /\ UNCHANGED connVars
  \/ \E t \in Tids : RequestCancelled(t) /\ MsgCancelled(t) /\ PoolFrame /\ UNCHANGED connVars
  \/ \E t \in Tids : RequestRemove(t) /\ ReqFrame
  \/ \E t \in Tids : RequestCloseChan(t) /\ ReqFrame

\* one connection whose handlers make requests, the messages followed through the pool
SpecPool == InitPool /\ [][NextPool]_vars

InitEmit == PatternIdle /\ RoomsInit /\ LifeInit /\ MsgInit /\ EmitInit /\ TokInit /\ LockInit /\ CxInit /\ RegInit

\* what a step of an emitting call or of a room call leaves alone
EmitFrame == UNCHANGED <<patternVars, thrVars, lifeVarsButEmit>>

NextEmit ==
  \/ \E s \in Sockets, n \in RoomNames : SocketJoin(s, n) /\ EmitFrame /\ UNCHANGED emitVars
  \/ \E s \in Sockets, n \in RoomNames : SocketLeave(s, n) /\ EmitFrame /\ UNCHANGED emitVars
  \/ \E n \in RoomNames : DeleteRoom(n) /\ EmitFrame /\ UNCHANGED emitVars
  \/ \E s \in Sockets, n \in RoomNames, marshalOK \in BOOLEAN : ToEmit(s, n, marshalOK) /\ EmitFrame
  \/ \E r \in Handles, ex \in SUBSET Sockets, marshalOK \in BOOLEAN : RoomEmit(r, ex, marshalOK) /\ EmitFrame
  \/ \E r \in Handles, ex \in SUBSET Sockets : RoomBroadcast(r, ex) /\ EmitFrame
  \/ \E s \in Sockets : ContextBroadcast(s) /\ EmitFrame
  \/ \E s \in Sockets : ContextBroadcastExceptMe(s) /\ EmitFrame
  \/ LoopSkip /\ EmitFrame
  \/ \E sendOK \in BOOLEAN : LoopSend(sendOK) /\ EmitFrame
  \/ EmitReturn /\ EmitFrame

\* handlers emit to rooms and broadcast while sockets join and leave rooms
SpecEmit == InitEmit /\ [][NextEmit]_vars

\* the events On is called with
RegEvents == {<<"a">>}

\* the handler lists a registration call is made with
RegHandlerLists == SeqsUpTo(HandlerValues, MaxRegHandlers)

InitRegister == PatternIdle /\ RoomsInit /\ MsgInit /\ EmitInit /\ TokInit /\ LockInit /\ CxInit /\ RegInit /\ LifeInitWith(EmptyServer, MaxFrames)

\* what a registration call leaves alone
RegFrame == UNCHANGED <<patternVars, roomVars, thrVars, latchVars, connVars, taskVars, reqVars, msgVars, emitVars, cxVars, lockVars, tokVars>>

\* what HandleOpen, HandleClose and an invoking Next leave alone
RegConnFrame == UNCHANGED <<patternVars, roomVars, thrVars, latchVars, srv, reqVars, msgVars, emitVars, reg, cxVars, lockVars, tokVars>>

\* a dispatch starts on goroutine t
MethodReset(t) == methods' = [methods EXCEPT ![t] = <<>>]

\* the handlers of this Server: a message-phase handler calls Next once and returns, an
\* open-phase or a close-phase handler returns and leaves the next handler to the driver
CallsNextOnce(t) == Top(Pop(stack[t])).bind = "normal" /\ Top(stack[t]).calls = 0

NextRegister ==
  \/ \E hs \in RegHandlerLists : ServerUse(hs) /\ RegFrame
  \/ \E ev \in RegEvents, hs \in RegHandlerLists : ServerOn(ev, hs) /\ RegFrame
  \/ \E hs \in RegHandlerLists : ServerUseOpen(hs) /\ RegFrame
  \/ \E hs \in RegHandlerLists : ServerUseClose(hs) /\ RegFrame
  \/ HandleOpen /\ reg.err # "panic" /\ MethodReset(ConnTid) /\ RegConnFrame
  \/ HandleOpenReturn /\ ConnFrame
  \/ ReadFrame /\ ConnFrame
  \/ ReadCloseStatus(StatusNormalClosure) /\ toSend = 0 /\ TasksReturned /\ CloseFrame
  \/ HandleClose /\ MethodReset(ConnTid) /\ RegConnFrame
  \/ HandleCloseReturn /\ ConnFrame
  \/ ConnLeaveAllRooms /\ UNCHANGED <<patternVars, thrVars, latchVars, srv, taskVars, reqVars, msgVars, emitVars, regVars, cxVars, lockVars, tokVars>>
  \/ TransportClose /\ StopFrame
  \/ \E t \in MsgTids : TaskFinish(t) /\ DriverFrame
  \/ \E t \in Tids : NextReturn(t) /\ DriverFrame
  \/ \E t \in Tids : NextInvoke(t) /\ MethodLog(t) /\ RegConnFrame /\ UNCHANGED connVars
  \/ \E t \in Tids : HCallNext(t) /\ CallsNextOnce(t) /\ DriverFrame
  \/ \E t \in Tids : HReturn(t) /\ ~CallsNextOnce(t) /\ DriverFrame

\* handlers are registered on a new Server, which then serves one connection
SpecRegister == InitRegister /\ [][NextRegister]_vars

InitContext == PatternIdle /\ RoomsInit /\ LifeInit /\ MsgInit /\ EmitInit /\ TokInit /\ LockInit /\ CxInit /\ RegInit

\* what a step on the Context objects leaves alone
CtxFrame == UNCHANGED <<patternVars, roomVars, thrVars, latchVars, srv, connVars, taskVars, reqVars, msgVars, emitVars, regVars, lockVars, tokVars>>

NextContext ==
  \/ \E s \in Sockets : NewDispatch(s) /\ CtxFrame
  \/ \E p \in CtxHandles : NewSubContext(p) /\ CtxFrame
  \/ \E h \in CtxHandles : CtxNextEnter(h) /\ CtxFrame
  \/ \E h \in CtxHandles, k \in CtxKeys : CtxSet(h, k) /\ CtxFrame
  \/ \E h \in CtxHandles : CtxPanic(h) /\ CtxFrame
  \/ \E h \in CtxHandles : CtxHandlerReturn(h) /\ CtxFrame
  \/ \E h \in CtxHandles : CtxFree(h) /\ CtxFrame

\* dispatches take their Contexts and sub-contexts from the pool and release them
SpecContext == InitContext /\ [][NextContext]_vars

InitLocks == PatternIdle /\ RoomsInit /\ LifeInit /\ MsgInit /\ EmitInit /\ TokInit /\ LockInit /\ CxInit /\ RegInit

\* what a locking step leaves alone
LockFrame == UNCHANGED <<patternVars, roomVars, thrVars, latchVars, srv, connVars, taskVars, reqVars, msgVars, emitVars, regVars, cxVars, tokVars>>

NextLocks ==
  \/ \E t \in LockThreads, s \in Sockets, r \in LockRooms : LockCall(t, SocketJoinLocks(s, r)) /\ LockFrame
  \/ \E t \in LockThreads, s \in Sockets, r \in LockRooms, exists \in BOOLEAN :
        LockCall(t, SocketLeaveLocks(s, r, exists)) /\ LockFrame
  \/ \E t \in LockThreads, s \in Sockets, r \in LockRooms : LockCall(t, RoomJoinLocks(r, s)) /\ LockFrame
  \/ \E t \in LockThreads, s \in Sockets, r \in LockRooms : LockCall(t, RoomLeaveLocks(r, s)) /\ LockFrame
  \/ \E t \in LockThreads, s \in Sockets, o \in RoomOrders : LockCall(t, leaveAllRoomsLocks(s, o)) /\ LockFrame
  \/ \E t \in LockThreads : LockCall(t, RoomManagerRoomLocks) /\ LockFrame
  \/ \E t \in LockThreads, r \in LockRooms, exists \in BOOLEAN : LockCall(t, DeleteRoomLocks(r, exists)) /\ LockFrame
  \/ \E t \in LockThreads, o \in RoomOrders : LockCall(t, GetAllSocketsLocks(o)) /\ LockFrame
  \/ \E t \in LockThreads, o \in RoomOrders : LockCall(t, GetSocketByIDLocks(o)) /\ LockFrame
  \/ \E t \in LockThreads, r \in LockRooms : LockCall(t, EmitLocks(r)) /\ LockFrame
  \/ \E t \in LockThreads : LockAcquire(t) /\ LockFrame
  \/ \E t \in LockThreads : LockWait(t) /\ LockFrame
  \/ \E t \in LockThreads : RLockAcquire(t) /\ LockFrame
  \/ \E t \in LockThreads : LockRelease(t) /\ LockFrame
  \/ \E t \in LockThreads : RLockRelease(t) /\ LockFrame

\* goroutines call the operations on rooms concurrently
SpecLocks == InitLocks /\ [][NextLocks]_vars

\* the handlers of an orderly dispatch: each calls Next once, then returns
OrderlyCallsNext(t) == Top(stack[t]).calls = 0

NextOrder ==
  \/ HandleOpen /\ ConnFrame
  \/ HandleOpenReturn /\ ConnFrame
  \/ ReadFrame /\ ConnFrame
  \/ \E st \in ClientStatuses : ReadCloseStatus(st) /\ CloseFrame
  \/ HandleClose /\ ConnFrame
  \/ HandleCloseReturn /\ ConnFrame
  \/ ConnLeaveAllRooms /\ UNCHANGED <<patternVars, thrVars, latchVars, srv, taskVars, reqVars, msgVars, emitVars, regVars, cxVars, lockVars, tokVars>>
  \/ TransportClose /\ StopFrame
  \/ \E t \in MsgTids : TaskFinish(t) /\ DriverFrame
  \/ \E t \in Tids : NextReturn(t) /\ DriverFrame
  \/ \E t \in Tids : NextInvoke(t) /\ DriverFrame
  \/ \E t \in Tids : HCallNext(t) /\ OrderlyCallsNext(t) /\ DriverFrame
  \/ \E t \in Tids : HReturn(t) /\ ~OrderlyCallsNext(t) /\ DriverFrame
  \/ \E t \in Tids, ev \in Events : HSetMessageEvent(t, ev) /\ DriverFrame

\* one connection of the Server of SpecEvent whose handlers all call Next exactly once
SpecOrder == InitEvent /\ [][NextOrder]_vars

(***************************************************************************)
(* Claims.                                                                 *)
(***************************************************************************)

\* C3 (as claimed): after any sequence of completed, non-overlapping Socket.Join,
\* Socket.Leave, Room.Join, Room.Leave, DeleteRoom and leaveAllRooms calls, a room
\* name n is listed in S.Rooms() if and only if the room named n exists in the
\* manager and has S as a member.
C3_MembershipSymmetric ==
  \A s \in Sockets, n \in RoomNames : (n \in Rooms(s)) <=> ManagerHas(n, s)

\* C4 (as claimed): once all concurrent Socket.Join, Socket.Leave and leaveAllRooms
\* calls have returned, a room's member set contains S if and only if S.rooms holds
\* that room.
C4_ConcurrentJoinLeaveAgree ==
  Quiescent =>
    \A s \in Sockets, r \in Handles : Has(r, s) <=> (sRooms[s][roomObjs[r].name] = r)

\* C10 (as claimed): the pattern a.** matches the event a as well as a.b and a.b.c
\* (a trailing ** may consume zero segments).
C10_DeepWildcardMatchesEmptySuffix ==
  ( /\ matchDone
    /\ patternStr = <<"a", ".", "*", "*">>
    /\ eventStr \in {<<"a">>, <<"a", ".", "b">>, <<"a", ".", "b", ".", "c">>} )
  => matched

\* the close latch and what it records, as a handler or the server can read it
SocketCloseState == <<closed, closeStatus, closeReason, closeStatusSource, cancelled>>

\* C1 (as claimed): whatever Socket.Close calls the read loop (source client) and the
\* handlers (source server) make, in whatever order, once one has been made the socket
\* is closed and CloseStatus returns the arguments of the first call; a Close on a
\* closed socket changes nothing of the socket's close state, so that triple is stable.
C1_CloseIdempotent ==
  /\ [](firstClose.called =>
          /\ IsClosed
          /\ CloseStatus = <<firstClose.status, firstClose.reason, firstClose.source>>)
  /\ [][closed => UNCHANGED SocketCloseState]_vars

\* a server-side close came first and a client close with other arguments came later
C1_Witness_LaterCloseIgnored ==
  /\ firstClose.source = "server"
  /\ lastClose.source = "client"
  /\ lastClose.status # firstClose.status
  /\ CloseStatus = <<firstClose.status, firstClose.reason, "server">>

\* C2 (as claimed): when a Next call finds an interceptor outstanding for the ID that
\* SetMessageID installed, the message is delivered to that interceptor exactly once
\* (never twice, and once that Next call is over, once), and neither that Next call nor
\* a later Next call of the same dispatch invokes a handler.
C2_InterceptedExactlyOnceNeverDispatched ==
  \A t \in MsgTids :
    icpt[t].found =>
      /\ icpt[t].sent <= 1
      /\ ~icpt[t].pending => icpt[t].sent = 1
      /\ ~icpt[t].invokedAfter

\* C5 (as claimed): until HandleOpen has returned, no frame has been read, no dispatch
\* goroutine exists and no message-phase handler has been invoked.
C5_OpenPhaseBeforeFirstRead ==
  connPc \in {"start", "open"} =>
    /\ FramesRead = 0
    /\ \A t \in Tids : \A i \in 1..Len(log[t]) : log[t][i] \notin Range(MessageHandlers)

\* the open chain ran to its end, and a message handler runs in the read phase
C5_Witness_MessageAfterOpen ==
  /\ connPc = "read"
  /\ log[ConnTid] = OpenHandlers
  /\ \E t \in MsgTids : InHandler(t) /\ Top(stack[t]).h \in Range(MessageHandlers)

\* the read loop has returned false
ReadLoopOver == connPc \in {"closing", "close", "leave", "tclose", "done"}

\* C6 (as claimed): a close-phase handler is invoked only after the read loop has
\* returned false; and once HandleClose has returned without a close handler having
\* recorded an error, the close chain has invoked every registered close handler, once,
\* in registration order, the socket being closed throughout.
C6_CloseChainAfterReadLoopRunsWhole ==
  /\ (\E t \in Tids : \E i \in 1..Len(log[t]) : log[t][i] \in Range(CloseHandlers))
       => (ReadLoopOver /\ connPc # "closing" /\ IsClosed)
  /\ (connPc \in {"leave", "tclose", "done"} /\ ~errRecorded[ConnTid])
       => log[ConnTid] = CloseHandlers

\* the connection is over, the socket was closed when the close chain began, and all
\* three close handlers of the two close nodes were invoked
C6_Witness_CloseChainOnClosedSocket ==
  /\ connPc = "done"
  /\ IsClosed
  /\ ~errRecorded[ConnTid]
  /\ Len(log[ConnTid]) = 3
  /\ log[ConnTid] = CloseHandlers

\* C7 (as claimed): after a transport read error that is neither a close status nor a
\* cancellation, HandleConnection ends with the socket closed with source client, the
\* close chain run, the socket in no room and the transport closed.
C7_ReadErrorTearsDownGracefully ==
  (fatal /\ connPc \in {"done", "panicked"}) =>
    /\ IsClosed
    /\ closeStatusSource = "client"
    /\ log[ConnTid] = CloseHandlers
    /\ Rooms(Conn) = {}
    /\ transport.closed

\* C8 (as claimed): once the teardown of the connection is finished and every dispatch
\* goroutine of the socket has returned, no room has the socket as a member (so no
\* later Emit or Broadcast, which send to the members of rooms, reaches it) and the
\* socket holds no room.
C8_NoMembershipAfterTeardown ==
  (connPc = "done" /\ TasksReturned) =>
    /\ \A r \in Handles : ~Has(r, Conn)
    /\ Rooms(Conn) = {}

\* C9 (as claimed): the socket's context is cancelled exactly when the closed latch is
\* set, and the latch has gone from open to closed exactly as many times as it is
\* closed now: once at most, and never back.
C9_CancelledIffClosedLatchOnce ==
  /\ cancelled <=> closed
  /\ closeFlips = (IF closed THEN 1 ELSE 0)

\* the latch is set, the context cancelled, and Close was called again afterwards
C9_Witness_ClosedTwiceFlippedOnce ==
  /\ closed /\ cancelled /\ closeFlips = 1
  /\ firstClose.source = "client"
  /\ lastClose.source = "server"

RECURSIVE NonEmptySegs(_)
\* the non-empty segments of a dot-separated string, given its parts
NonEmptySegs(parts) ==
  IF Len(parts) = 0 THEN <<>>
  ELSE IF Head(parts) = <<>> THEN NonEmptySegs(Tail(parts))
  ELSE <<Head(parts)>> \o NonEmptySegs(Tail(parts))

\* the dot-separated segments of an event (the empty event has none)
EventSegs(event) == IF event = <<>> THEN <<>> ELSE SplitDots(event, <<>>)

RECURSIVE SegMatch(_, _)
\* the segment-wise reading of a pattern: a literal takes one equal segment, "*" one
\* non-empty segment, "**" a run of zero or more segments
SegMatch(ps, es) ==
  IF Len(ps) = 0 THEN Len(es) = 0
  ELSE IF Head(ps) = <<"*", "*">>
    THEN \E k \in 0..Len(es) : SegMatch(Tail(ps), SubSeq(es, k + 1, Len(es)))
  ELSE IF Head(ps) = <<"*">>
    THEN Len(es) > 0 /\ Head(es) # <<>> /\ SegMatch(Tail(ps), Tail(es))
  ELSE Len(es) > 0 /\ Head(es) = Head(ps) /\ SegMatch(Tail(ps), Tail(es))

\* C11 (as claimed): for every pattern and event drawn, Match is true exactly when the
\* event's segments match, in order, the pattern's non-empty segments read segment-wise
\* (a literal one equal segment, "*" one non-empty segment, "**" zero or more segments
\* at the start, in the middle or at the end).
C11_MatchIsSegmentwise ==
  matchDone =>
    (matched <=> SegMatch(NonEmptySegs(SplitDots(patternStr, <<>>)), EventSegs(eventStr)))

\* C12 (as claimed): the pattern a.* matches a.x for every non-empty segment x, and
\* matches neither a nor any a.x.y.
C12_SingleWildcardOneSegment ==
  (matchDone /\ patternStr = <<"a", ".", "*">>) =>
    /\ (Len(evSegs) = 2 /\ evSegs[1] = <<"a">> /\ evSegs[2] # <<>>) => matched
    /\ evSegs = <<<<"a">>>> => ~matched
    /\ (Len(evSegs) = 3 /\ evSegs[1] = <<"a">>) => ~matched

\* a.* was matched against a.b.c and refused it
C12_Witness_StarRefusesTwoSegments ==
  /\ matchDone
  /\ patternStr = <<"a", ".", "*">>
  /\ eventStr = <<"a", ".", "b", ".", "c">>
  /\ ~matched

\* C13 (as claimed): every step in which the driver invokes a message-phase handler
\* leaves the cursor on a node whose pattern matches the message's event as it stands
\* at that moment; so after SetMessageEvent and Next the rest of the current node runs
\* only if the node still matches, and otherwise the cursor has moved on.
C13_InvokedNodeMatchesEvent ==
  [][\A t \in Tids :
       (Len(log'[t]) = Len(log[t]) + 1 /\ srv.nodes[ctx'[t].node].bind = "normal")
         => tryMatch(ctx'[t].node, ctx'[t].event)]_vars

\* h1 renamed the message from a.b to b and called Next: h2 of the same node was
\* passed over and h3 of the node "b" runs
C13_Witness_RenamedSkipsRestOfNode ==
  \E t \in MsgTids :
    /\ log[t] = <<"mw", "h1", "h3">>
    /\ ctx[t].event = <<"b">>
    /\ InHandler(t)

\* goroutine t's handler ends (returns or panics) in this step
HandlerEnds(t) ==
  /\ InHandler(t)
  /\ stack'[t] # stack[t]
  /\ Len(stack'[t]) <= Len(stack[t])

\* the bind type of the node of the handler goroutine t is in
BindOfHandler(t) == stack[t][Len(stack[t]) - 1].bind

\* C14 (as claimed): once a message-phase handler has returned without having called
\* Next, no handler is invoked any more in that dispatch; when an open-phase handler
\* ends with the socket open, or a close-phase handler ends, the driver itself re-enters
\* Next at once; so an open chain that ran on an open socket without error has invoked
\* every open handler in order.
C14_ExplicitNextInMessagePhaseOnly ==
  /\ [][\A t \in Tids :
          /\ icpt[t].quiet => (Len(log'[t]) <= Len(log[t]))
          /\ (HandlerEnds(t) /\ ( \/ (BindOfHandler(t) = "open" /\ ~IsClosed)
                                  \/ BindOfHandler(t) = "close" ))
               => (stack'[t] # <<>> /\ Top(stack'[t]).k = "next" /\ Top(stack'[t]).pc = "enter")
          /\ (HandlerEnds(t) /\ BindOfHandler(t) = "normal" /\ Top(stack[t]).calls = 0)
               => (stack'[t] = <<>> \/ Top(stack'[t]).k = "handler")]_vars
  /\ []((connPc = "read" /\ ~IsClosed /\ ~errRecorded[ConnTid]) => log[ConnTid] = OpenHandlers)

\* the open chain was driven through both open handlers, and a dispatch ended after its
\* first message handler returned without calling Next
C14_Witness_QuietHandlerEndsDispatch ==
  /\ log[ConnTid] = OpenHandlers
  /\ \E t \in MsgTids :
       /\ tstate[t] = "done"
       /\ icpt[t].quiet
       /\ log[t] = <<"m1">>

\* the Context of goroutine t is in use (built and not yet freed)
CtxLive(t) == IF t = ConnTid THEN connPc \in {"open", "close"} ELSE tstate[t] = "run"

\* C15 (as claimed): a handler's panic is recovered and kept as ctx.Error of its
\* dispatch, no goroutine dies of it; while ctx.Error is set no Next call of the dispatch
\* invokes a handler; and the step in which a handler panics changes neither the close
\* latch, nor where HandleConnection stands (the read loop goes on), nor the Context,
\* the stack or the handlers invoked of any other dispatch.
C15_PanicRecoveredDispatchOnly ==
  /\ [](\A t \in Tids : (icpt[t].panicked /\ CtxLive(t)) => ctx[t].error)
  /\ [](\A t \in MsgTids : tstate[t] # "crashed")
  /\ [][\A t \in Tids :
          /\ (ctx[t].error /\ ctx'[t].error) => Len(log'[t]) <= Len(log[t])
          /\ (~icpt[t].panicked /\ icpt'[t].panicked) =>
               /\ UNCHANGED <<SocketCloseState, connPc, toSend, tstate>>
               /\ \A u \in Tids \ {t} :
                    ctx'[u] = ctx[u] /\ stack'[u] = stack[u] /\ log'[u] = log[u]]_vars

\* the first open handler panicked, the second was therefore not invoked, the socket is
\* open, the read loop read a frame and its dispatch runs a message handler
C15_Witness_PanicInOpenThenDispatch ==
  /\ icpt[ConnTid].panicked
  /\ log[ConnTid] = <<"o1">>
  /\ connPc = "read"
  /\ ~IsClosed
  /\ \E t \in MsgTids : InHandler(t) /\ ~ctx[t].error

\* C16 (as claimed): a request that returns a response without error returns the data
\* of the frame whose dispatch delivered the response for its ID, whatever other frames
\* are read and dispatched meanwhile.
C16_RequestReturnsItsResponse ==
  \A id \in 1..Len(reqGot) :
    (reqGot[id].done /\ ~reqGot[id].err) => reqGot[id].data = reqGot[id].from

\* the requests in flight: the calls of Request that have not returned
InFlight == {id \in 1..Len(chans) : \E t \in Tids : \E i \in 1..Len(stack[t]) :
               stack[t][i].k = "request" /\ stack[t][i].id = id}

\* a step in which the Request call of goroutine t returns
RequestReturns(t) ==
  /\ stack[t] # <<>>
  /\ Top(stack[t]).k = "request"
  /\ stack'[t] = Pop(stack[t])

\* C17: whenever a Request call returns (response, timeout, cancellation, marshalling
\* or send error) the interceptor map has no entry for its ID; the map only holds
\* entries of requests in flight, so it is empty when no request is in flight.
C17_NoInterceptorOutlivesItsRequest ==
  /\ [](interceptors \subseteq InFlight)
  /\ [][\A t \in Tids : RequestReturns(t) => Top(stack[t]).id \notin interceptors']_vars

\* C17 witness: a request has returned after its response was delivered, and the map
\* is empty
C17_Witness_ReturnedRequestLeftNoEntry ==
  /\ \E id \in 1..Len(chans) : chans[id].closed /\ id \notin InFlight
  /\ \E t \in Tids : icpt[t].sent = 1
  /\ interceptors = {}

\* the sockets of the snapshot of the call followed
Snapshot == Range(em.snap)

\* the call followed has written one frame to each socket whose Send succeeded and
\* none to any other socket
OneFrameWhereSendSucceeded == \A s \in Sockets : wire[s] = IF s \in em.ok THEN 1 ELSE 0

C19_RoomEmitCountsSuccessfulSends ==
  (em.op \in {"roomEmit", "roomBroadcast"} /\ em.pc = "done") =>
    /\ em.ok \subseteq Snapshot \ em.exclude
    /\ em.ret = Cardinality(em.ok)
    /\ {s \in Sockets : wire[s] > 0} = em.ok
    /\ em.taken => em.tried = Snapshot \ em.exclude
    /\ Snapshot \subseteq em.exclude => (em.ret = 0 /\ em.tried = {} /\ wire = NoFrames)

\* C19 witness: Room.Broadcast on two members, the first Send failed, the second
\* succeeded, the result is 1
C19_Witness_FailedSendThenSuccess ==
  /\ em.op = "roomBroadcast" /\ em.pc = "done"
  /\ Len(em.snap) = 2 /\ em.exclude = {}
  /\ em.snap[1] \notin em.ok /\ em.snap[2] \in em.ok
  /\ em.ret = 1

\* C20 (as claimed): once ctx.Broadcast(data) has returned it has sent to every
\* connected socket, and ctx.BroadcastExceptMe(data) to every connected socket but the
\* calling one.
C20_BroadcastReachesEveryConnectedSocket ==
  em.pc = "done" =>
    /\ em.op = "broadcast" => em.tried = Connected
    /\ em.op = "broadcastExceptMe" => em.tried = Connected \ {em.caller}

RECURSIVE ChainOf(_, _)
\* the handlers of a list of the Server s from node n on
ChainOf(s, n) == IF n = 0 THEN <<>> ELSE s.nodes[n].handlers \o ChainOf(s, s.nodes[n].next)

\* the open, message and close handler lists of the Server s
ListsOf(s) ==
  [ open |-> ChainOf(s, s.firstOpenHandlerNode),
    message |-> ChainOf(s, s.firstHandlerNode),
    close |-> ChainOf(s, s.firstCloseHandlerNode) ]

\* the handler is a bare function
IsBare(h) == Implements(h, "HandlerFunc") \/ Implements(h, "func")

\* the capability a registration call requires of its handlers
HasCapabilityFor(h, op) ==
  CASE op \in {"Use", "On"} -> Implements(h, "Handler") \/ IsBare(h)
    [] op = "UseOpen" -> Implements(h, "OpenHandler") \/ IsBare(h)
    [] op = "UseClose" -> Implements(h, "CloseHandler") \/ IsBare(h)

\* C21 (as claimed): Use and On with an empty handler list return ErrNoHandlers; a
\* registration call with a handler that lacks the capability its list requires returns
\* InvalidHandlerError; a failing call leaves the three handler lists as they were.
C21_RegistrationErrorsLeaveListsAlone ==
  reg.n > 0 =>
    /\ (reg.op \in {"Use", "On"} /\ reg.handlers = <<>>) => reg.err = "ErrNoHandlers"
    /\ (reg.handlers # <<>> /\ \E i \in 1..Len(reg.handlers) : ~HasCapabilityFor(reg.handlers[i], reg.op))
         => reg.err = "InvalidHandlerError"
    /\ reg.err # "nil" => ListsOf(srv) = ListsOf(reg.before)

HasOpen(h) == Implements(h, "OpenHandler")
HasClose(h) == Implements(h, "CloseHandler")

\* the method of a phase
PhaseMethod(bindType) ==
  CASE bindType = "open" -> "HandleOpen"
    [] bindType = "normal" -> "Handle"
    [] bindType = "close" -> "HandleClose"

\* the phase goroutine t dispatches in
PhaseOf(t) == IF t \in MsgTids THEN "normal" ELSE IF connPc = "open" THEN "open" ELSE "close"

\* C22: after a successful On or Use the handlers are at the end of the message list,
\* those with the open capability also at the end of the open list and those with the
\* close capability at the end of the close list, and no others; and the driver runs
\* each handler of a dispatch through the method of the dispatch's phase (a bare
\* function is called).
C22_OneRegistrationCoversItsPhases ==
  /\ (reg.op \in {"Use", "On"} /\ reg.err = "nil") =>
        /\ ListsOf(srv).message = ListsOf(reg.before).message \o reg.handlers
        /\ ListsOf(srv).open = ListsOf(reg.before).open \o SelectSeq(reg.handlers, HasOpen)
        /\ ListsOf(srv).close = ListsOf(reg.before).close \o SelectSeq(reg.handlers, HasClose)
  /\ \A t \in Tids :
        /\ Len(methods[t]) = Len(log[t])
        /\ \A i \in 1..Len(methods[t]) :
             /\ methods[t][i].h = log[t][i]
             /\ stack[t] # <<>> => methods[t][i].bind = PhaseOf(t)
             /\ methods[t][i].method =
                  IF IsBare(methods[t][i].h) THEN "call" ELSE PhaseMethod(methods[t][i].bind)

\* C22 witness: a handler with the three capabilities registered by Use has run through
\* Handle in the message dispatch and is running through HandleClose in the close chain
C22_Witness_UseHandlerRunsInEachPhase ==
  /\ reg.op = "Use" /\ reg.err = "nil"
  /\ "hMOC" \in Range(reg.handlers)
  /\ [h |-> "hMOC", bind |-> "normal", method |-> "Handle"] \in Range(methods[1])
  /\ [h |-> "hMOC", bind |-> "close", method |-> "HandleClose"] \in Range(methods[ConnTid])
  /\ "hMOC" \in Range(ListsOf(srv).open)

\* the Context h is taken from contextFromPool in this step
Acquired(h) == h \in CtxHandles' /\ cx'[h].owner # 0 /\ (h \in CtxHandles => cx[h].owner = 0)

\* a Context in the pool holds none of what the list names
HoldsNothing(obj) ==
  /\ obj.socket = 0
  /\ obj.message = 0
  /\ obj.parentContext = 0
  /\ obj.currentHandlerNode = 0
  /\ obj.Error = "nil"
  /\ obj.ErrorStack = ""
  /\ obj.associatedValues = NoValues

\* C23: a Context in the pool holds no socket, inbound message, parent, handler cursor,
\* error or per-message value; and a Context acquired for a new dispatch starts on the
\* socket and message of that dispatch with no error and no value, so nothing of an
\* earlier dispatch shows in it (a sub-context starts with what its parent holds).
C23_PooledContextIsClean ==
  /\ [](\A h \in cxPool : HoldsNothing(cx[h]))
  /\ [][\A h \in 1..(Len(cx) + 1) :
          Acquired(h) =>
            IF cx'[h].parentContext = 0
              THEN /\ cx'[h].socket \in Sockets
                   /\ cx'[h].message = dispatches'
                   /\ cx'[h].Error = "nil"
                   /\ cx'[h].associatedValues = NoValues
              ELSE LET p == cx'[h].parentContext
                   IN  /\ cx'[h].socket = cx[p].socket
                       /\ cx'[h].Error = cx[p].Error
                       /\ cx'[h].associatedValues = cx[p].associatedValues]_vars

\* the second dispatch runs on the one Context object there is, the object the first
\* dispatch used and released, and has set a value of its own in it
C23_Witness_SecondDispatchReusesObject ==
  /\ Len(cx) = 1
  /\ cx[1].owner = 2
  /\ cx[1].associatedValues["k"] = 2
  /\ cxPool = {}

\* C24: when Next returns on a sub-context, its parent's Error and ErrorStack are the
\* sub-context's and every value set in the sub-context is in the parent; so an error a
\* handler of a mounted server recorded is in the mounting server's Context once the
\* sub-context is released, and a Next call on a Context with an Error invokes no handler.
C24_SubContextHandsErrorAndValuesUp ==
  /\ [](\A h \in CtxHandles :
          (cx[h].owner # 0 /\ cx[h].parentContext # 0 /\ cx[h].returned /\ cx[h].pc = "idle") =>
            LET p == cx[h].parentContext
            IN  /\ cx[p].Error = cx[h].Error
                /\ cx[p].ErrorStack = cx[h].ErrorStack
                /\ \A k \in CtxKeys : cx[h].associatedValues[k] # 0 =>
                                         cx[p].associatedValues[k] = cx[h].associatedValues[k])
  /\ [][\A h \in CtxHandles :
          (cx[h].owner # 0 /\ cx[h].parentContext # 0 /\ cx'[h].owner = 0) =>
            cx'[cx[h].parentContext].Error = cx[h].Error]_vars
  /\ [][\A h \in CtxHandles :
          (cx[h].owner # 0 /\ cx[h].Error # "nil" /\ cx'[h].owner # 0 /\ cx'[h].calls > cx[h].calls) =>
            cx'[h].pc = "idle" /\ cx'[h].skipped = cx[h].skipped + 1]_vars

\* a handler of the mounted server panicked, its sub-context is released, the Context
\* of the mounting server holds that error and a later Next call on it returned at once
C24_Witness_MountedErrorStopsMountingChain ==
  \E p \in CtxHandles :
    /\ cx[p].owner # 0
    /\ cx[p].parentContext = 0
    /\ cx[p].Error = "errB"
    /\ cx[p].skipped > 0
    /\ LiveSubs(p) = {}

\* C25 (as claimed): a dispatch that holds the channel of an interceptor and is about
\* to send the response on it finds the channel open and its buffer free, so the send
\* neither waits nor panics, whatever the requester and other dispatches have done.
C25_ResponseDeliveryNeverWaitsNorPanics ==
  \A t \in MsgTids :
    AtSend(t) =>
      /\ ~chans[Top(stack[t]).id].closed
      /\ Len(chans[Top(stack[t]).id].buf) < 1

\* C26 (as claimed): a message object is in the pool at most once (it is put back at
\* most once per acquisition), an object a Context holds is not in the pool, and no two
\* Contexts hold the same object, a response handed through an interceptor included.
C26_MessageReturnedOnceOwnedByOne ==
  /\ \A h \in 1..Len(pool) : pool[h] <= 1
  /\ \A t \in Tids : msgOf[t] # 0 => pool[msgOf[t]] = 0
  /\ \A t, u \in Tids : (t # u /\ msgOf[t] # 0) => msgOf[t] # msgOf[u]

\* goroutine t is inside Lock or RLock and cannot return from it now
LockBlocked(t) ==
  \/ AtLockOp(t, "Lock") /\ (mx[NextMx(t)].w # 0 \/ mx[NextMx(t)].rd # {})
  \/ AtLockOp(t, "RLock") /\ (mx[NextMx(t)].w # 0 \/ mx[NextMx(t)].wait # {})

\* the goroutines that keep the blocked goroutine t from returning
WaitsFor(t) ==
  IF AtLockOp(t, "Lock")
    THEN ({mx[NextMx(t)].w} \ {0}) \cup mx[NextMx(t)].rd
    ELSE ({mx[NextMx(t)].w} \ {0}) \cup mx[NextMx(t)].wait

\* the goroutines of D are blocked, each one by a goroutine of D
Deadlocked(D) == D # {} /\ \A t \in D : LockBlocked(t) /\ WaitsFor(t) \cap D # {}

\* C27: no interleaving of the operations on rooms deadlocks (no set of goroutines is
\* blocked each by another of the set), and the mutexes a goroutine holds together were
\* taken in the order socket rooms lock, room-manager lock, room lock.
C27_RoomLocksNeverDeadlock ==
  /\ \A D \in SUBSET LockThreads : ~Deadlocked(D)
  /\ \A t \in LockThreads : \A i, j \in 1..Len(lth[t].held) :
        i < j => lth[t].held[i].kind < lth[t].held[j].kind

\* one goroutine is in DeleteRoom holding the manager's mutex and blocked on the
\* room's, which a goroutine in Socket.Join holds together with the socket's, while a
\* third goroutine is blocked on that socket's mutex
C27_Witness_ThreeGoroutinesContend ==
  \E t, u, v \in LockThreads :
    /\ lth[t].held = <<ManagerMx>> /\ LockBlocked(t) /\ NextMx(t).kind = 3
    /\ Len(lth[u].held) = 2 /\ lth[u].held[1].kind = 1 /\ lth[u].held[2] = NextMx(t)
    /\ LockBlocked(v) /\ NextMx(v) = lth[u].held[1]

\* the node that holds the handler h
NodeOfHandler(h) == CHOOSE n \in 1..Len(srv.nodes) : h \in Range(srv.nodes[n].handlers)

\* the place of the handler h in the list of its node
IndexOfHandler(h) ==
  CHOOSE i \in 1..Len(srv.nodes[NodeOfHandler(h)].handlers) : srv.nodes[NodeOfHandler(h)].handlers[i] = h

RECURSIVE NoneMatchUntil(_, _, _)
\* no node from n up to the node to (0: the end of the list), to excluded, matches the event
NoneMatchUntil(n, to, event) ==
  IF n = to THEN TRUE
  ELSE IF n = 0 THEN FALSE
  ELSE ~tryMatch(n, event) /\ NoneMatchUntil(srv.nodes[n].next, to, event)

\* a Next call of the dispatch goroutine t invokes a handler in this step
InvokesNow(t) == Len(log'[t]) = Len(log[t]) + 1

\* a Next call of the dispatch goroutine t, the socket open, finds no handler to invoke
ChainEndsNow(t) ==
  /\ AtNextEnter(t)
  /\ ~ShortCircuits(ctx[t])
  /\ stack'[t] # stack[t]
  /\ log'[t] = log[t]

\* the node to is the first node from n on that matches the event, and to is not n
FirstMatchAfter(n, to, event) ==
  /\ to # n
  /\ NoneMatchUntil(srv.nodes[n].next, to, event)
  /\ to # 0 => tryMatch(to, event)

\* C28 (as claimed): in a dispatch whose handlers all call Next once, the first handler
\* invoked is the first of the first matching node; after a handler the next one of the
\* same node is invoked, and after the last of a node the first of the next node that
\* matches the event; the chain ends only after the last handler of a node, with no
\* matching node left.
C28_EveryMatchingNodeRunsWhole ==
  [][\A t \in MsgTids :
       LET e == ctx[t].event
           n == NodeOfHandler(Top(log[t]))
           i == IndexOfHandler(Top(log[t]))
           whole == i = Len(srv.nodes[n].handlers)
       IN  /\ InvokesNow(t) =>
                 LET h == Top(log'[t])
                 IN  IF log[t] = <<>>
                       THEN /\ IndexOfHandler(h) = 1
                            /\ NoneMatchUntil(srv.firstHandlerNode, NodeOfHandler(h), e)
                            /\ tryMatch(NodeOfHandler(h), e)
                       ELSE \/ NodeOfHandler(h) = n /\ IndexOfHandler(h) = i + 1
                            \/ whole /\ IndexOfHandler(h) = 1 /\ FirstMatchAfter(n, NodeOfHandler(h), e)
           /\ ChainEndsNow(t) =>
                 IF log[t] = <<>>
                   THEN NoneMatchUntil(srv.firstHandlerNode, 0, e)
                   ELSE whole /\ FirstMatchAfter(n, 0, e)]_vars

\* C28 (amended): as claimed, but a node is left, its remaining handlers passed over,
\* also when a handler has changed the event to one the node's pattern does not match;
\* a handler is invoked only from a node that matches the event as it stands.
C28_MatchingNodeRunsWhileItMatches ==
  [][\A t \in MsgTids :
       LET e == ctx[t].event
           n == NodeOfHandler(Top(log[t]))
           i == IndexOfHandler(Top(log[t]))
           over == i = Len(srv.nodes[n].handlers) \/ ~tryMatch(n, e)
       IN  /\ InvokesNow(t) =>
                 LET h == Top(log'[t])
                 IN  IF log[t] = <<>>
                       THEN /\ IndexOfHandler(h) = 1
                            /\ NoneMatchUntil(srv.firstHandlerNode, NodeOfHandler(h), e)
                            /\ tryMatch(NodeOfHandler(h), e)
                       ELSE \/ NodeOfHandler(h) = n /\ IndexOfHandler(h) = i + 1 /\ tryMatch(n, e)
                            \/ over /\ IndexOfHandler(h) = 1 /\ FirstMatchAfter(n, NodeOfHandler(h), e)
           /\ ChainEndsNow(t) =>
                 IF log[t] = <<>>
                   THEN NoneMatchUntil(srv.firstHandlerNode, 0, e)
                   ELSE over /\ FirstMatchAfter(n, 0, e)]_vars

\* a dispatch whose handlers each called Next once is over with the socket open: the
\* middleware named the message a.b, h1 renamed it b, so h2 was passed over and h3 ran
C28_Witness_RenameLeavesNodeEarly ==
  \E t \in MsgTids :
    /\ log[t] = <<"mw", "h1", "h3">>
    /\ stack[t] = <<>>
    /\ tstate[t] = "run"
    /\ ~IsClosed

\* C29: within one dispatch (the open chain, a message dispatch, the close chain) no
\* handler is invoked more than once, however many times handlers call Next: not when
\* a handler calls Next again after its first call returned, and not when an open- or
\* close-phase handler calls Next itself before the driver re-enters Next.
C29_NoHandlerInvokedTwice ==
  \A t \in Tids : \A i, j \in 1..Len(log[t]) : i # j => log[t][i] # log[t][j]

\* the open handler o1 has called Next itself twice and both calls have returned: o2
\* ran once, in the first call
C29_Witness_OpenHandlerCalledNextTwice ==
  /\ InHandler(ConnTid)
  /\ Top(stack[ConnTid]).h = "o1"
  /\ Top(stack[ConnTid]).calls = 2
  /\ log[ConnTid] = <<"o1", "o2">>

\* C30: a Next call on an open- or message-phase Context made when the socket is
\* already closed invokes no handler (only close-phase handlers are invoked on a closed
\* socket); so the dispatch of a frame that had invoked no handler when the socket
\* closed never invokes one.
C30_ClosedSocketInvokesCloseHandlersOnly ==
  [][\A t \in Tids :
       (IsClosed /\ Len(log'[t]) > Len(log[t])) => srv.nodes[ctx'[t].node].bind = "close"]_vars

\* a frame was read, the socket closed before its dispatch invoked a handler, and the
\* dispatch is over with no handler run
C30_Witness_FrameDroppedAfterClose ==
  \E t \in MsgTids :
    /\ tstate[t] = "done"
    /\ log[t] = <<>>
    /\ IsClosed

\* C31: once an open-phase handler has closed the socket no further open-phase handler
\* is invoked; no message-phase handler is invoked for that connection (none has been
\* invoked while the open chain runs, the socket stays closed, and no message-phase
\* handler is invoked on a closed socket); and the close chain still runs: when
\* HandleClose has returned without a close handler having recorded an error, every
\* close handler was invoked.
C31_CloseInOpenPhaseSkipsToCloseChain ==
  /\ [][(connPc = "open" /\ IsClosed) => log'[ConnTid] = log[ConnTid]]_vars
  /\ [](connPc = "open" => \A t \in MsgTids : log[t] = <<>>)
  /\ [][IsClosed => (IsClosed' /\ \A t \in MsgTids : log'[t] = log[t])]_vars
  /\ []((connPc = "done" /\ ~errRecorded[ConnTid]) => (transport.closed /\ log[ConnTid] = CloseHandlers))

\* the open handler o1 closed the socket and the open chain is over: o2 was not invoked
C31_Witness_FirstOpenHandlerClosed ==
  /\ connPc = "open"
  /\ IsClosed
  /\ firstClose.source = "server"
  /\ stack[ConnTid] = <<>>
  /\ log[ConnTid] = <<"o1">>

\* the steps of HandleConnection from one phase to the next
PhaseSteps ==
  { <<"start", "open">>, <<"open", "read">>, <<"read", "closing">>, <<"closing", "close">>,
    <<"close", "leave">>, <<"leave", "tclose">>, <<"tclose", "done">>, <<"read", "panicked">> }

\* C32: HandleConnection goes through the open chain, the read loop, the close chain,
\* leaveAllRooms and the transport's Close in this order, each once (it never goes back
\* and skips none); no dispatch goroutine is spawned once the read loop is over; and
\* the transport is closed once, at the end, with the status and reason of the first
\* Socket.Close call.
C32_PhasesInOrderTransportGetsFirstClose ==
  /\ [][connPc' # connPc => <<connPc, connPc'>> \in PhaseSteps]_vars
  /\ [][ReadLoopOver => FramesRead' = FramesRead]_vars
  /\ [][transport.closed => transport' = transport]_vars
  /\ [](transport.closed <=> connPc = "done")
  /\ [](connPc = "done" =>
          /\ firstClose.called
          /\ transport.status = firstClose.status
          /\ transport.reason = firstClose.reason)

\* HandleConnection is over, a frame was dispatched, a handler closed the socket with
\* a reason and the client's later close was ignored: the transport got the handler's
\* status and reason
C32_Witness_TransportClosedWithHandlerStatus ==
  /\ connPc = "done"
  /\ FramesRead > 0
  /\ firstClose.source = "server"
  /\ firstClose.reason = "banned"
  /\ lastClose.source = "client"
  /\ transport = [closed |-> TRUE, status |-> StatusPolicyViolation, reason |-> "banned"]

\* ---- the connection goroutine under fair scheduling ----

\* the steps of the goroutine that runs HandleConnection which need nothing from the
\* peer: the returns of its own handlers and of Context.Next, the read that fails
\* with context.Canceled, the close chain, leaveAllRooms and the transport's Close
ConnProgress ==
  \/ HandleOpen /\ ConnFrame
  \/ HandleOpenReturn /\ ConnFrame
  \/ ReadCancelled /\ StopFrame
  \/ HandleClose /\ ConnFrame
  \/ HandleCloseReturn /\ ConnFrame
  \/ ConnLeaveAllRooms /\ UNCHANGED <<patternVars, thrVars, latchVars, srv, taskVars, reqVars, msgVars, emitVars, regVars, cxVars, lockVars, tokVars>>
  \/ TransportClose /\ StopFrame
  \/ NextReturn(ConnTid) /\ DriverFrame
  \/ NextInvoke(ConnTid) /\ DriverFrame
  \/ HReturn(ConnTid) /\ DriverFrame

\* one connection whose transport reports frames, close statuses and cancellation only
NextLive ==
  \/ HandleOpen /\ ConnFrame
  \/ HandleOpenReturn /\ ConnFrame
  \/ ReadFrame /\ ConnFrame
  \/ \E st \in ClientStatuses : ReadCloseStatus(st) /\ CloseFrame
  \/ ReadCancelled /\ StopFrame
  \/ HandleClose /\ ConnFrame
  \/ HandleCloseReturn /\ ConnFrame
  \/ ConnLeaveAllRooms /\ UNCHANGED <<patternVars, thrVars, latchVars, srv, taskVars, reqVars, msgVars, emitVars, regVars, cxVars, lockVars, tokVars>>
  \/ TransportClose /\ StopFrame
  \/ \E t \in MsgTids : TaskFinish(t) /\ DriverFrame
  \/ \E t \in Tids : NextReturn(t) /\ DriverFrame
  \/ \E t \in Tids : NextInvoke(t) /\ DriverFrame
  \/ \E t \in Tids : HCallNext(t) /\ DriverFrame
  \/ \E t \in Tids : HReturn(t) /\ DriverFrame
  \/ \E t \in Tids : HPanic(t) /\ DriverFrame
  \/ \E t \in Tids : HSetError(t) /\ DriverFrame
  \/ \E t \in Tids, a \in ServerCloses : HClose(t, a) /\ CloseFrame /\ UNCHANGED connVars
  \/ \E t \in Tids, n \in LifeRooms : HJoin(t, n) /\ RoomFrame
  \/ \E t \in Tids, n \in LifeRooms : HLeave(t, n) /\ RoomFrame

\* the connection goroutine keeps being scheduled and its own handlers return; nothing
\* is assumed about the goroutines of the message dispatches or about the peer
SpecLive == Init /\ [][NextLive]_vars /\ WF_vars(ConnProgress)

C34_ReadLoopNeverWaitsForHandlers ==
  /\ []((Reading /\ toSend > 0 /\ FramesRead < MaxTasks) => ENABLED (ReadFrame /\ ConnFrame))
  /\ [][\A t \in MsgTids :
          (tstate[t] = "none" /\ tstate'[t] # "none")
            => /\ tstate'[t] = "run"
               /\ Reading
               /\ t = FramesRead + 1
               /\ toSend' = toSend - 1
               /\ \A u \in MsgTids \ {t} : tstate'[u] = tstate[u]]_vars

\* the first dispatch is blocked in a Request that no response has answered while the
\* second frame has been read and its handler is running
C34_Witness_SecondDispatchRunsWhileFirstBlocked ==
  /\ AtRequest(1, "wait") /\ chans[Top(stack[1]).id].buf = <<>>
  /\ ~cancelled
  /\ tstate[1] = "run" /\ tstate[2] = "run"
  /\ InHandler(2)

\* ---- cancellation tokens ----

InitTokens == PatternIdle /\ RoomsInit /\ LifeInit /\ MsgInit /\ EmitInit /\ TokInit /\ LockInit /\ CxInit /\ RegInit

TokFrame == UNCHANGED <<patternVars, roomVars, thrVars, latchVars, srv, connVars, taskVars, reqVars, msgVars, emitVars, regVars, cxVars, lockVars>>

NextTokens ==
  \/ \E s \in TkHandles : TkSocketClose(s) /\ TokFrame
  \/ \E s \in TkHandles : TkNewContext(s) /\ TokFrame
  \/ \E c \in TkHandles : TkNewSubContext(c) /\ TokFrame
  \/ \E c \in TkHandles : TkRequest(c) /\ TokFrame
  \/ \E r \in TkHandles : TkResponse(r) /\ TokFrame
  \/ \E r \in TkHandles : TkTimeout(r) /\ TokFrame
  \/ \E r \in TkHandles, how \in {"data", "cancelled"} : TkRequestReturn(r, how) /\ TokFrame
  \/ \E c \in TkHandles : TkFree(c) /\ TokFrame

\* the tokens of the sockets, and of the Contexts and Requests made on them
SpecTokens == InitTokens /\ [][NextTokens]_vars

\* the tokens that become done in this step
TkFlipped(i) == i \in TkHandles /\ ~tk[i].done /\ tk'[i].done

\* C35: closing a socket cancels the token of every Context, sub-context and Request of
\* that socket in use (and a token made later on the closed socket is done from the
\* start), so a pending Request can always return, with the cancellation error when no
\* response has arrived.  Any other step - a Context released, a Request timed out or
\* returned - cancels no socket, and cancels no token but the one of the Context or
\* Request it is about; closing one socket cancels nothing of another socket.
C35_CloseCancelsEveryContextReleaseCancelsOne ==
  /\ [](\A i \in TkHandles : tk[SocketOf(i)].done => tk[i].done)
  /\ [](\A s \in Sockets : tk[s].done <=> ~tk[s].live)
  /\ [](\A r \in TkHandles :
          (tk[r].kind = "request" /\ tk[r].live /\ tk[r].done)
            => ENABLED (TkRequestReturn(r, "cancelled") /\ TokFrame))
  /\ [][\A r \in TkHandles :
          (tk[r].kind = "request" /\ tk[r].live /\ ~tk'[r].live /\ ~tk[r].resp)
            => tk'[r].result = "cancelled"]_vars
  /\ [][(\A s \in Sockets : tk'[s].live = tk[s].live)
          => /\ \A s \in Sockets : tk'[s] = tk[s]
             /\ \A i, j \in TkHandles : (TkFlipped(i) /\ TkFlipped(j)) => i = j
             /\ \A i \in TkHandles :
                  TkFlipped(i) => (tk[i].live /\ (~tk'[i].live \/ tk[i].kind = "request"))]_vars
  /\ [][\A s \in Sockets : (tk[s].live /\ ~tk'[s].live)
          => \A i \in TkHandles : TkFlipped(i) => SocketOf(i) = s]_vars

\* socket 1 is closed with a Context, a sub-context of it and a Request of the
\* sub-context in use, all three cancelled, while a Context of socket 2 is not
C35_Witness_CloseReachesSubContextRequest ==
  /\ Len(tk) = 6
  /\ ~tk[1].live /\ tk[2].live
  /\ tk[3].parent = 1 /\ tk[4].parent = 3 /\ tk[5].parent = 4 /\ tk[5].kind = "request"
  /\ tk[3].live /\ tk[4].live /\ tk[5].live /\ ~tk[5].resp
  /\ tk[3].done /\ tk[4].done /\ tk[5].done
  /\ tk[6].parent = 2 /\ tk[6].live /\ ~tk[6].done

\* ---- emitting while rooms change ----

\* the goroutines that run here: one more adds interleavings of the same calls only
SendThreads == {1, 2}

NextSends ==
  \/ \E t \in SendThreads, r \in LockRooms, q \in SocketOrders : LockCall(t, RoomEmitCalls(r, q)) /\ LockFrame
  \/ \E t \in SendThreads, o \in RoomOrders, q \in SocketOrders : LockCall(t, emitToMultipleRoomsCalls(o, q)) /\ LockFrame
  \/ \E t \in SendThreads, o \in RoomOrders, q \in SocketOrders : LockCall(t, ContextBroadcastCalls(o, q)) /\ LockFrame
  \/ \E t \in SendThreads, o \in RoomOrders, q \in SocketOrders : Len(q) <= 1 /\ LockCall(t, EmitToCalls(o, q)) /\ LockFrame
  \/ \E t \in SendThreads, s \in Sockets, r \in LockRooms : LockCall(t, SocketJoinLocks(s, r)) /\ LockFrame
  \/ \E t \in SendThreads, r \in LockRooms, exists \in BOOLEAN : LockCall(t, DeleteRoomLocks(r, exists)) /\ LockFrame
  \/ \E t \in SendThreads : LockAcquire(t) /\ LockFrame
  \/ \E t \in SendThreads : LockWait(t) /\ LockFrame
  \/ \E t \in SendThreads : RLockAcquire(t) /\ LockFrame
  \/ \E t \in SendThreads : LockRelease(t) /\ LockFrame
  \/ \E t \in SendThreads : RLockRelease(t) /\ LockFrame
  \/ \E t \in SendThreads : SendStep(t) /\ LockFrame

\* goroutines emit to rooms and to all sockets while others join and delete rooms
SpecSends == InitLocks /\ [][NextSends]_vars

\* C36: whenever a goroutine is about to call Socket.Send in Room.Emit, Room.Broadcast,
\* ToRooms(...).Emit, Context.Broadcast, BroadcastExceptMe or EmitTo, it holds no
\* room's mutex and not the room manager's: the locks it took for the snapshot are
\* all released.
C36_NoSendUnderRoomLocks ==
  \A t \in SendThreads :
    AtLockOp(t, "Send")
      => /\ lth[t].held = <<>>
         /\ \A m \in Mutexes : m.kind \in {2, 3} => (mx[m].w # t /\ t \notin mx[m].rd)

\* a goroutine is in the middle of its sends to two sockets while another goroutine
\* holds the write lock of a room and the manager's
C36_Witness_SendsWhileRoomIsWriteLocked ==
  /\ Len(lth[1].prog) = 1 /\ AtLockOp(1, "Send")
  /\ lth[1].held = <<>>
  /\ mx[ManagerMx].w = 2 /\ mx[RoomMx(1)].w = 2

\* ---- emitting through a Context ----

NextToRooms ==
  \/ \E s \in Sockets, n \in RoomNames : SocketJoin(s, n) /\ EmitFrame /\ UNCHANGED emitVars
  \/ \E s \in Sockets, n \in RoomNames : SocketLeave(s, n) /\ EmitFrame /\ UNCHANGED emitVars
  \/ \E s \in Sockets, o \in RoomNameLists, marshal \in MarshalOutcomes : ToRoomsEmit(s, o, marshal) /\ EmitFrame
  \/ CollectRoom /\ EmitFrame
  \/ CollectDone /\ EmitFrame
  \/ \E s \in Sockets, marshal \in MarshalOutcomes : ContextBroadcastWith(s, marshal) /\ EmitFrame
  \/ \E s \in Sockets, marshal \in MarshalOutcomes : ContextBroadcastExceptMeWith(s, marshal) /\ EmitFrame
  \/ \E s \in Sockets, target \in Sockets, marshal \in MarshalOutcomes : ContextEmitTo(s, target, marshal) /\ EmitFrame
  \/ LoopSkip /\ EmitFrame
  \/ \E sendOK \in BOOLEAN : LoopSend(sendOK) /\ EmitFrame
  \/ LoopPanic /\ EmitFrame
  \/ EmitReturn /\ EmitFrame

\* handlers emit through their Context while sockets join and leave rooms
SpecToRooms == InitEmit /\ [][NextToRooms]_vars

\* C37: a ToRooms(...).Emit writes at most one frame to a socket, none to the socket of
\* the emitting Context and none to a socket it did not find in a named room; what it
\* returns is the number of sockets it found, the emitter apart, whose Send succeeded.
C37_ToRoomsSendsOncePerSocketNotToSelf ==
  em.op = "toRooms"
    => /\ \A s \in Sockets : wire[s] <= 1
       /\ wire[em.caller] = 0
       /\ \A s \in Sockets : wire[s] = 1 => s \in em.socketMap
       /\ em.sent = Cardinality({s \in Sockets : wire[s] = 1})
       /\ (em.pc = "done" /\ ~em.panicked)
            => /\ em.ret = Cardinality({s \in em.socketMap \ {em.caller} : s \in em.ok})
               /\ em.tried = em.socketMap \ {em.caller}
               /\ em.ok = {s \in Sockets : wire[s] = 1}

\* socket 1 emits to both rooms; socket 2 is in both and got one frame; 1 is returned
C37_Witness_MemberOfBothRoomsGotOneFrame ==
  /\ em.op = "toRooms" /\ em.pc = "done" /\ em.caller = 1 /\ em.marshal = "ok"
  /\ \A n \in RoomNames : rmRooms[n] # 0 /\ RoomSockets(rmRooms[n]) = {1, 2}
  /\ em.socketMap = {1, 2}
  /\ wire = [s \in Sockets |-> IF s = 2 THEN 1 ELSE 0]
  /\ em.ret = 1

\* C38 (as claimed): when the marshaller of the Context is nil or returns an error,
\* Broadcast, BroadcastExceptMe, EmitTo and ToRooms(...).Emit write no frame and
\* count no recipient, as Room.Emit does.
C38_FailedMarshalSendsNothing ==
  em.marshal # "ok" => (wire = NoFrames /\ em.sent = 0 /\ em.ret = 0)

\* ---- a mounted Server ----

NextMount ==
  \/ \E s \in Sockets : NewDispatch(s) /\ CtxFrame
  \/ \E p \in CtxHandles : NewSubContext(p) /\ CtxFrame
  \/ \E h \in CtxHandles : CtxNextEnter(h) /\ CtxFrame
  \/ \E h \in CtxHandles : CtxHandlerReturn(h) /\ CtxFrame
  \/ \E h \in CtxHandles : cx[h].parentContext = 0 /\ CtxFree(h) /\ CtxFrame
  \/ \E h \in CtxHandles : ServerHandleFree(h) /\ CtxFrame
  \/ \E p \in CtxHandles : ServerHandleCheck(p) /\ CtxFrame

\* dispatches whose handlers are mounted Servers, each line of Server.Handle a step
SpecMount == InitContext /\ [][NextMount]_vars

\* C39 (as claimed): no Context is read or written after it was released to the pool
\* by the code that released it; Server.Handle, HandleOpen and HandleClose do not touch
\* the sub-context they have released.
C39_NoContextReadAfterRelease ==
  \A p \in CtxHandles : cx[p].owner # 0 => ~cx[p].readFreed

\* C40 (as claimed): whatever other dispatches take from the pool meanwhile,
\* Server.Handle, HandleOpen and HandleClose return without a call of Next on the
\* Context they were called with.
C40_MountNeverCallsNextOnParent ==
  \A p \in CtxHandles : cx[p].owner # 0 => ~cx[p].byMount


============================================================================
